---- MODULE Spec2Model ----
(***************************************************************************)
(* A model of python/openapc_toolkit.py of openapc-de: the ISBN            *)
(* normaliser (ISBNHandling) and the row enrichment pipeline               *)
(* (process_row).                                                          *)
(*                                                                         *)
(* Strings are sequences of one-character strings, so that slicing,        *)
(* stripping, hyphen removal and comparison are computed as Python does.   *)
(* A message text produced by str.format is a sequence whose fixed parts   *)
(* are single elements; it is never equal to a string of plain characters. *)
(* Python list indexes are 0-based; sequences here are 1-based.            *)
(***************************************************************************)
EXTENDS Integers, Sequences, FiniteSets, TLC

VARIABLES
    mode,            \* which of the specifications of this module is running
    isbn_in,         \* argument of test_and_normalize_isbn
    isbn_res,        \* its return value (NotCalled before the call)
    isbn_again,      \* return value of normalising the hyphen-stripped result
    pc,              \* position inside process_row
    row,             \* the list `row` handed to process_row (mutated on restart)
    cfg,             \* the keyword arguments of the current process_row call
    current_row,     \* the dict current_row
    record_type,     \* the local record_type ("None" for None)
    doi,             \* the local doi
    retries,         \* the local retries of the Crossref loop
    crossref_result, \* the local crossref_result (last answer of the resolver)
    depth,           \* number of recursive process_row calls made for the row
    calls,           \* resolver calls of the current process_row call, and the
                     \* numbers of DOIs the ISBN lookups of the row found
    log,             \* number of records logged per level by the current call
    result,          \* what process_row returned or raised (NotCalled before)
    input_row,       \* the values of `row` when the caller passed it
    call,            \* a call of one of the other functions: its name and arguments
    ret              \* what that call returned or raised (NotCalled before)

vars == <<mode, isbn_in, isbn_res, isbn_again, pc, row, cfg, current_row,
          record_type, doi, retries, crossref_result, depth, calls, log, result,
          input_row, call, ret>>

isbnVars == <<isbn_in, isbn_res, isbn_again>>
rowVars == <<pc, row, cfg, current_row, record_type, doi, retries,
             crossref_result, depth, calls, log, result, input_row>>
callVars == <<call, ret>>

-----------------------------------------------------------------------------
(* Characters and Python string primitives                                 *)

DigitSeq == <<"0", "1", "2", "3", "4", "5", "6", "7", "8", "9">>
DigitChars == {DigitSeq[i] : i \in 1..Len(DigitSeq)}
Hy == "-"
Sp == " "

\* int(c) for a single decimal digit
DigitVal(c) == (CHOOSE i \in 1..Len(DigitSeq) : DigitSeq[i] = c) - 1

AllDigits(s) == \A i \in 1..Len(s) : s[i] \in DigitChars

\* s[:n] and s[n:] (Python slices never fail, they truncate)
Take(s, n) == SubSeq(s, 1, IF n < Len(s) THEN n ELSE Len(s))
Drop(s, n) == SubSeq(s, (IF n < Len(s) THEN n ELSE Len(s)) + 1, Len(s))

\* s.startswith(p)
StartsWith(s, p) == Len(p) <= Len(s) /\ SubSeq(s, 1, Len(p)) = p

\* s.replace(c, "")
RECURSIVE RemoveChar(_, _)
RemoveChar(s, c) ==
    IF s = <<>> THEN <<>>
    ELSE IF Head(s) = c THEN RemoveChar(Tail(s), c)
    ELSE <<Head(s)>> \o RemoveChar(Tail(s), c)

\* s.strip()
RECURSIVE LStrip(_)
LStrip(s) == IF s # <<>> /\ Head(s) = Sp THEN LStrip(Tail(s)) ELSE s
RECURSIVE RStrip(_)
RStrip(s) == IF s # <<>> /\ s[Len(s)] = Sp THEN RStrip(SubSeq(s, 1, Len(s) - 1)) ELSE s
Strip(s) == RStrip(LStrip(s))

\* int(s) for a non-empty string of decimal digits
RECURSIVE IntOf(_)
IntOf(s) == IF Len(s) = 0 THEN 0
            ELSE IntOf(SubSeq(s, 1, Len(s) - 1)) * 10 + DigitVal(s[Len(s)])

\* s.split(c)
RECURSIVE SplitOn(_, _)
SplitOn(s, c) ==
    IF \A i \in 1..Len(s) : s[i] # c THEN <<s>>
    ELSE LET k == CHOOSE i \in 1..Len(s) : s[i] = c /\ \A j \in 1..(i - 1) : s[j] # c
         IN <<SubSeq(s, 1, k - 1)>> \o SplitOn(SubSeq(s, k + 1, Len(s)), c)

\* the index of the first element of 1..n satisfying P, 0 if there is none
FirstIndex(n, P(_)) ==
    IF \E i \in 1..n : P(i)
    THEN CHOOSE i \in 1..n : P(i) /\ \A j \in 1..(i - 1) : ~P(j)
    ELSE 0

\* the outcome of a call that raised ValueError
ValueError == [exception |-> "ValueError"]
\* the same where the value returned otherwise is an int
NoLength == 0 - 1

-----------------------------------------------------------------------------
(* ISBNHandling                                                            *)

P978 == <<"9", "7", "8">>
P979 == <<"9", "7", "9">>

\* ISBN_RE = ^97[89]\d{10}$
ISBN_RE(s) ==
    /\ Len(s) = 13
    /\ s[1] = "9" /\ s[2] = "7" /\ s[3] \in {"8", "9"}
    /\ AllDigits(s)

\* ISBN_SPLIT_RE with the registration group limited to four digits
ISBN_SPLIT_RE_group4(s) ==
    LET g == SplitOn(s, Hy) IN
    /\ Len(g) = 5
    /\ g[1] \in {P978, P979}
    /\ \A i \in 1..5 : AllDigits(g[i])
    /\ Len(g[2]) \in 1..4
    /\ Len(g[3]) \in 1..7
    /\ Len(g[4]) \in 1..6
    /\ Len(g[5]) = 1

\* ISBN_SPLIT_RE = ^97[89]\-\d{1,5}\-\d{1,7}\-\d{1,6}\-\d{1}$
ISBN_SPLIT_RE(s) ==
    LET g == SplitOn(s, Hy) IN
    /\ Len(g) = 5
    /\ g[1] \in {P978, P979}
    /\ \A i \in 1..5 : AllDigits(g[i])
    /\ Len(g[2]) \in 1..5
    /\ Len(g[3]) \in 1..7
    /\ Len(g[4]) \in 1..6
    /\ Len(g[5]) = 1

Rule(lo, hi, len) == [min |-> lo, max |-> hi, length |-> len]

\* self.ean_elements: the EAN.UCC prefixes of the range message, in file order
ean_elements == <<
    [Prefix |-> P978, Rules |-> <<
        Rule(0, 5999999, 1), Rule(6000000, 6499999, 3), Rule(6500000, 6599999, 2),
        Rule(6600000, 6999999, 0), Rule(7000000, 7999999, 1), Rule(8000000, 9499999, 2),
        Rule(9500000, 9899999, 3), Rule(9900000, 9989999, 4), Rule(9990000, 9999999, 5)>>],
    [Prefix |-> P979, Rules |-> <<
        Rule(0, 999999, 0), Rule(1000000, 1299999, 2), Rule(1300000, 7999999, 0),
        Rule(8000000, 8999999, 1), Rule(9000000, 9999999, 0)>>] >>

GeneralRules == <<
    Rule(0, 1999999, 2), Rule(2000000, 6999999, 3), Rule(7000000, 8499999, 4),
    Rule(8500000, 8999999, 5), Rule(9000000, 9499999, 6), Rule(9500000, 9999999, 7)>>

\* self.registration_groups: the registration groups of the range message
registration_groups == <<
    [Prefix |-> P978 \o <<Hy, "0">>, Rules |-> GeneralRules],
    [Prefix |-> P978 \o <<Hy, "3">>, Rules |-> GeneralRules],
    [Prefix |-> P978 \o <<Hy, "6", "0", "0">>, Rules |-> <<
        Rule(0, 999999, 2), Rule(1000000, 4999999, 3), Rule(5000000, 8999999, 4),
        Rule(9000000, 9999999, 5)>>],
    [Prefix |-> P978 \o <<Hy, "6", "5">>, Rules |-> <<
        Rule(0, 199999, 2), Rule(200000, 2499999, 0), Rule(2500000, 2999999, 3),
        Rule(3000000, 9999999, 0)>>],
    [Prefix |-> P978 \o <<Hy, "8", "0">>, Rules |-> <<
        Rule(0, 1999999, 2), Rule(2000000, 6999999, 3), Rule(7000000, 8499999, 4),
        Rule(8500000, 8999999, 5), Rule(9000000, 9999999, 6)>>],
    [Prefix |-> P978 \o <<Hy, "9", "9", "5", "0">>, Rules |-> <<
        Rule(0, 2999999, 2), Rule(3000000, 8499999, 3), Rule(8500000, 9999999, 4)>>],
    [Prefix |-> P978 \o <<Hy, "9", "9", "9", "2", "1">>, Rules |-> <<
        Rule(0, 1999999, 1), Rule(2000000, 6999999, 2), Rule(7000000, 7999999, 3),
        Rule(8000000, 8999999, 1), Rule(9000000, 9999999, 2)>>],
    [Prefix |-> P979 \o <<Hy, "1", "0">>, Rules |-> <<
        Rule(0, 1999999, 2), Rule(2000000, 6999999, 3), Rule(7000000, 8999999, 4),
        Rule(9000000, 9759999, 5), Rule(9760000, 9999999, 6)>>],
    [Prefix |-> P979 \o <<Hy, "8">>, Rules |-> <<
        Rule(0, 1999999, 2), Rule(2000000, 2299999, 0), Rule(2300000, 6999999, 3),
        Rule(7000000, 9999999, 4)>>] >>

\* int(min) <= value <= int(max) for one rule of a range
InRange(rule, value) == rule.min <= value /\ value <= rule.max

\* the loop of _get_range_length_from_rules for value = int(isbn_fragment[:7]):
\* the length of the first rule the value lies in; the loop ends without
\* one (NoLength) where the function raises ValueError
range_length_for(rules, value) ==
    IF \E i \in 1..Len(rules) : InRange(rules[i], value)
    THEN rules[FirstIndex(Len(rules), LAMBDA i : InRange(rules[i], value))].length
    ELSE NoLength

\* ISBNHandling._get_range_length_from_rules
get_range_length_from_rules(isbn_fragment, rules) ==
    range_length_for(rules, IntOf(Take(isbn_fragment, 7)))

\* the texts split_isbn returns in 'value' when it fails
MsgNoIsbn(isbn) == <<"\"">> \o isbn \o <<"\" is no valid 13-digit ISBN!">>
MsgEanUnused(remaining, prefix) ==
    <<"Invalid ISBN: Remaining fragment \"">> \o remaining \o <<"\" for EAN prefix \"">>
    \o prefix \o <<"\" is inside a range which is not marked for use yet">>
MsgNoPrefix(isbn) ==
    <<"ISBN \"">> \o isbn \o <<"\" does not seem to have a valid prefix.">>
MsgGroupUnused(remaining, split) ==
    <<"Invalid ISBN: Remaining fragment \"">> \o remaining
    \o <<"\" for registration group \"">> \o split
    \o <<"\" is inside a range which is not marked for use yet">>
MsgNoGroup(isbn) ==
    <<"ISBN \"">> \o isbn \o <<"\" does not seem to have a valid registration group element.">>

SplitResult(ok, v) == [success |-> ok, value |-> v]

\* the end of split_isbn: registrant, publication number and check digit
\* are appended to split_isbn
split_joined(split_isbn0, registrant, remaining_isbn) ==
    SplitResult(TRUE, split_isbn0 \o <<Hy>> \o registrant \o <<Hy>>
                      \o Take(remaining_isbn, Len(remaining_isbn) - 1) \o <<Hy>>
                      \o Drop(remaining_isbn, Len(remaining_isbn) - 1))

\* the body of the second loop of split_isbn, for the length its rules give
split_registrant_length(split_isbn0, remaining_isbn0, length) ==
    IF length = NoLength THEN ValueError
    ELSE IF length = 0
    THEN SplitResult(FALSE, MsgGroupUnused(remaining_isbn0, split_isbn0))
    ELSE split_joined(split_isbn0, Take(remaining_isbn0, length),
                      Drop(remaining_isbn0, length))

\* the index of the first registration group whose prefix is split_isbn (0: none)
group_index(split_isbn0) ==
    FirstIndex(Len(registration_groups),
               LAMBDA i : split_isbn0 = registration_groups[i].Prefix)

\* the second loop of split_isbn, for the registration group of index g
split_registrant_group(isbn, split_isbn0, remaining_isbn0, g) ==
    IF g = 0 THEN SplitResult(FALSE, MsgNoGroup(isbn))
    ELSE split_registrant_length(split_isbn0, remaining_isbn0,
             get_range_length_from_rules(remaining_isbn0, registration_groups[g].Rules))

\* the second loop of split_isbn: the registrant, publication and check digit
split_registrant(isbn, split_isbn0, remaining_isbn0) ==
    split_registrant_group(isbn, split_isbn0, remaining_isbn0, group_index(split_isbn0))

\* the body of the first loop of split_isbn, for the length its rules give
split_group_length(isbn, prefix, remaining_isbn, length) ==
    IF length = NoLength THEN ValueError
    ELSE IF length = 0 THEN SplitResult(FALSE, MsgEanUnused(remaining_isbn, prefix))
    ELSE split_registrant(isbn, prefix \o <<Hy>> \o Take(remaining_isbn, length),
                          Drop(remaining_isbn, length))

\* the body of the first loop of split_isbn, for the element ean
split_group(isbn, ean, remaining_isbn) ==
    split_group_length(isbn, ean.Prefix, remaining_isbn,
                       get_range_length_from_rules(remaining_isbn, ean.Rules))

\* the first loop of split_isbn, for the EAN element of index e (0: none)
split_ean(isbn, e) ==
    IF e = 0 THEN SplitResult(FALSE, MsgNoPrefix(isbn))
    ELSE split_group(isbn, ean_elements[e], Drop(isbn, Len(ean_elements[e].Prefix)))

\* ISBNHandling.split_isbn
split_isbn(isbn) ==
    IF ~ISBN_RE(isbn) THEN SplitResult(FALSE, MsgNoIsbn(isbn))
    ELSE split_ean(isbn, FirstIndex(Len(ean_elements),
                                   LAMBDA i : StartsWith(isbn, ean_elements[i].Prefix)))

\* the dicts test_and_normalize_isbn returns
IsbnInvalid(isbn, err) == [valid |-> FALSE, input_value |-> isbn, error_type |-> err]
IsbnValid(isbn, norm) == [valid |-> TRUE, input_value |-> isbn, normalised |-> norm]

\* the comparison of test_and_normalize_isbn made with the unsplit digits
compare_split_unsplit(isbn, stripped_isbn, split_on_input, sp) ==
    IF sp = ValueError THEN ValueError
    ELSE IF split_on_input /\ sp.value # RemoveChar(stripped_isbn, Hy)
    THEN IsbnInvalid(isbn, 3)
    ELSE IsbnValid(isbn, sp.value)

\* the end of test_and_normalize_isbn: sp is what split_isbn returned, and
\* its 'value' is taken whatever its 'success' is
compare_split(isbn, stripped_isbn, split_on_input, sp) ==
    IF sp = ValueError THEN ValueError
    ELSE IF split_on_input /\ sp.value # stripped_isbn THEN IsbnInvalid(isbn, 3)
    ELSE IsbnValid(isbn, sp.value)

\* test_and_normalize_isbn after isbn.strip()
normalize_stripped(isbn, stripped_isbn, matches_split, unsplit_isbn) ==
    IF matches_split /\ Len(stripped_isbn) < 17 THEN IsbnInvalid(isbn, 1)
    ELSE IF matches_split /\ Len(stripped_isbn) > 17 THEN IsbnInvalid(isbn, 2)
    ELSE IF ISBN_RE(unsplit_isbn)
    THEN compare_split(isbn, stripped_isbn, matches_split /\ Len(stripped_isbn) = 17,
                       split_isbn(unsplit_isbn))
    ELSE IsbnInvalid(isbn, 0)

\* ISBNHandling.test_and_normalize_isbn
test_and_normalize_isbn(isbn) ==
    normalize_stripped(isbn, Strip(isbn), ISBN_SPLIT_RE(Strip(isbn)),
                       RemoveChar(Strip(isbn), Hy))

-----------------------------------------------------------------------------
(* The inputs of the ISBN normaliser                                       *)

\* the largest number of hyphens placed into an input
MaxHyphens == 4

NotCalled == [called |-> FALSE]
Idle == "idle"

\* EAN prefix and registration group digits the inputs start with
Heads == {
    <<"9", "7", "8", "0">>, <<"9", "7", "8", "3">>,
    <<"9", "7", "8", "6", "0", "0">>, <<"9", "7", "8", "6", "0", "1">>,
    <<"9", "7", "8", "6", "5">>, <<"9", "7", "8", "6", "6">>,
    <<"9", "7", "8", "7">>, <<"9", "7", "8", "8", "0">>,
    <<"9", "7", "8", "9", "9", "5", "0">>, <<"9", "7", "8", "9", "9", "9", "2", "1">>,
    <<"9", "7", "9", "0">>, <<"9", "7", "9", "1", "0">>, <<"9", "7", "9", "8">>,
    <<"9", "7", "7", "0">> }
\* the digit that follows the head
Leads == {"0", "1", "5", "9"}
Pad == <<"7", "1", "2", "3", "4", "5", "6", "7", "8", "9">>

\* digit strings of 13 digits, and two of 12 and of 14 digits
DigitInputs ==
    {Take(h \o <<d>> \o Pad, 13) : h \in Heads, d \in Leads}
    \cup {Take(<<"9", "7", "8", "0", "5">> \o Pad, n) : n \in {12, 14}}

\* d with a hyphen after each position of cuts
RECURSIVE Hyphenate(_, _)
Hyphenate(d, cuts) ==
    IF cuts = {} THEN d
    ELSE LET k == CHOOSE i \in cuts : \A j \in cuts : j <= i
         IN Hyphenate(Take(d, k), cuts \ {k}) \o <<Hy>> \o Drop(d, k)

CutSets == {c \in SUBSET (1..13) : Cardinality(c) <= MaxHyphens}

IsbnInputs ==
    {Hyphenate(d, c) : d \in DigitInputs, c \in CutSets}
    \cup {<<Sp>> \o Hyphenate(Take(<<"9", "7", "8", "3", "5">> \o Pad, 13), c) \o <<Sp>> :
            c \in CutSets}

rowIdle ==
    /\ pc = Idle /\ row = <<>> /\ cfg = <<>> /\ current_row = <<>>
    /\ record_type = "None" /\ doi = <<>> /\ retries = 0
    /\ crossref_result = NotCalled /\ depth = 0 /\ calls = <<>> /\ log = <<>>
    /\ result = NotCalled /\ input_row = <<>>

callIdle == call = <<>> /\ ret = NotCalled

InitIsbn ==
    /\ mode = "isbn"
    /\ isbn_in \in IsbnInputs
    /\ isbn_res = NotCalled
    /\ isbn_again = NotCalled
    /\ rowIdle
    /\ callIdle

\* a caller normalises a string
Normalize ==
    /\ mode = "isbn"
    /\ isbn_res = NotCalled
    /\ isbn_res' = test_and_normalize_isbn(isbn_in)
    /\ UNCHANGED <<mode, isbn_in, isbn_again>>
    /\ UNCHANGED <<rowVars, callVars>>

\* a caller strips the hyphens of a normalised value and normalises it again
Renormalize ==
    /\ mode = "isbn"
    /\ isbn_res # NotCalled /\ isbn_res # ValueError /\ isbn_res.valid
    /\ isbn_again = NotCalled
    /\ isbn_again' = test_and_normalize_isbn(RemoveChar(isbn_res.normalised, Hy))
    /\ UNCHANGED <<mode, isbn_in, isbn_res>>
    /\ UNCHANGED <<rowVars, callVars>>

NextIsbn == Normalize \/ Renormalize

SpecIsbn == InitIsbn /\ [][NextIsbn]_vars

-----------------------------------------------------------------------------
(* Properties of the ISBN normaliser (checked under SpecIsbn)              *)

Normalized == mode = "isbn" /\ isbn_res # NotCalled
\* the digits of the input and the split the range tree gives for them
InStripped == Strip(isbn_in)
InDigits == RemoveChar(InStripped, Hy)
InSplit == split_isbn(InDigits)
\* the digits lie in a range of length zero, or no prefix or group matches
Unallocated == ISBN_RE(InDigits) /\ InSplit # ValueError /\ ~InSplit.success

\* C7: test_and_normalize_isbn reports valid = False for every 13-digit input
\* whose digits fall into a range of length zero at the registration-group or
\* the registrant level, or for which no prefix rule or group matches.
C7_UnallocatedRejected ==
    (Normalized /\ Unallocated) => (isbn_res # ValueError /\ ~isbn_res.valid)

\* C8: for every string accepted as valid, normalising the hyphen-stripped
\* normalised value is valid again and gives the same normalised value.
C8_RoundTrip ==
    (mode = "isbn" /\ isbn_again # NotCalled)
        => /\ isbn_again # ValueError
           /\ isbn_again.valid
           /\ isbn_again.normalised = isbn_res.normalised

\* the input is itself the result of a successful split of its digits
Canonical == InSplit # ValueError /\ InSplit.success /\ InSplit.value = isbn_in

\* C9: normalising a canonical hyphenated ISBN (one a successful range-tree
\* split produces) is valid and returns that same string.
C9_Idempotent ==
    (Normalized /\ Canonical) => isbn_res = IsbnValid(isbn_in, isbn_in)

C9_Witness ==
    Normalized /\ Canonical /\ Len(isbn_in) = 17 /\ isbn_res # ValueError /\ isbn_res.valid

\* a string of five hyphen-separated digit groups of 3, 1-5, 1-7, 1-6 and 1 digits
FiveSegments(s) ==
    LET g == SplitOn(s, Hy) IN
    /\ Len(g) = 5
    /\ \A i \in 1..5 : g[i] # <<>> /\ AllDigits(g[i])
    /\ Len(g[1]) = 3 /\ Len(g[2]) <= 5 /\ Len(g[3]) <= 7 /\ Len(g[4]) <= 6 /\ Len(g[5]) = 1

HasHyphen(s) == \E i \in 1..Len(s) : s[i] = Hy

\* the outcome the segmentation comparison asks for
ComparedOutcome ==
    IF InSplit = ValueError THEN ValueError
    ELSE IF InSplit.value = InStripped THEN IsbnValid(isbn_in, InStripped)
    ELSE IsbnInvalid(isbn_in, 3)

-----------------------------------------------------------------------------
(* Values, DOI normalisation and the output schemas                        *)

NA == <<"N", "A">>
TRUE_STR == <<"T", "R", "U", "E">>
FALSE_STR == <<"F", "A", "L", "S", "E">>
None == <<"None">>

\* has_value
has_value(field) == Len(field) > 0 /\ field # NA

UpperSeq == <<"A", "B", "C", "D", "E", "F", "G", "H", "I", "J", "K", "L", "M", "N", "O", "P", "Q", "R", "S", "T", "U", "V", "W", "X", "Y", "Z">>
LowerSeq == <<"a", "b", "c", "d", "e", "f", "g", "h", "i", "j", "k", "l", "m", "n", "o", "p", "q", "r", "s", "t", "u", "v", "w", "x", "y", "z">>

\* c.lower()
LowerChar(c) ==
    IF \E i \in 1..Len(UpperSeq) : UpperSeq[i] = c
    THEN LowerSeq[CHOOSE i \in 1..Len(UpperSeq) : UpperSeq[i] = c]
    ELSE c
\* s.lower()
Lower(s) == [i \in 1..Len(s) |-> LowerChar(s[i])]

\* a regular expression's "." (any character)
AnyChar == "<any>"

\* the ways the optional prefix of DOI_RE can be written:
\* ((https?://)?(dx.)?doi.org/)|(doi:), matched ignoring case
DoiPrefixes ==
    {h \o d \o <<"d", "o", "i", AnyChar, "o", "r", "g", "/">> :
        h \in {<<>>, <<"h", "t", "t", "p", ":", "/", "/">>, <<"h", "t", "t", "p", "s", ":", "/", "/">>},
        d \in {<<>>, <<"d", "x", AnyChar>>}}
    \cup {<<"d", "o", "i", ":">>}

\* pat matches the beginning of s, letter case observed
MatchesAt_exact(s, pat) ==
    /\ Len(pat) <= Len(s)
    /\ \A i \in 1..Len(pat) : pat[i] = AnyChar \/ s[i] = pat[i]

\* pat matches the beginning of s, ignoring case
MatchesAt(s, pat) ==
    /\ Len(pat) <= Len(s)
    /\ \A i \in 1..Len(pat) : pat[i] = AnyChar \/ LowerChar(s[i]) = pat[i]

\* the number of digits s has from position i on
RECURSIVE DigitRun(_, _)
DigitRun(s, i) == IF i <= Len(s) /\ s[i] \in DigitChars THEN 1 + DigitRun(s, i + 1) ELSE 0

\* the position after [0-9]+(\.[0-9]+)* starting at i, 0 if it does not match
RECURSIVE NumberGroups(_, _)
NumberGroups(s, i) ==
    LET n == DigitRun(s, i) IN
    IF n = 0 THEN 0
    ELSE IF i + n <= Len(s) /\ s[i + n] = "." /\ DigitRun(s, i + n + 1) > 0
         THEN NumberGroups(s, i + n + 1)
         ELSE i + n

\* the number of non-blank characters s has from position i on (\S+)
RECURSIVE NonBlankRun(_, _)
NonBlankRun(s, i) == IF i <= Len(s) /\ s[i] # Sp THEN 1 + NonBlankRun(s, i + 1) ELSE 0

\* the group "doi" of DOI_RE matched at the beginning of s: 10\.[0-9]+(\.[0-9]+)*\/\S+
DoiBody(s) ==
    IF ~StartsWith(s, <<"1", "0", ".">>) THEN None
    ELSE LET j == NumberGroups(s, 4) IN
         IF j = 0 \/ j > Len(s) \/ s[j] # "/" \/ NonBlankRun(s, j + 1) = 0 THEN None
         ELSE SubSeq(s, 1, j + NonBlankRun(s, j + 1))

\* DOI_RE.match(s).groupdict()["doi"], None without a match
DOI_RE(s) ==
    IF DoiBody(s) # None THEN DoiBody(s)
    ELSE IF \E pat \in DoiPrefixes : MatchesAt(s, pat) /\ DoiBody(Drop(s, Len(pat))) # None
    THEN LET pat == CHOOSE q \in DoiPrefixes :
                        MatchesAt(s, q) /\ DoiBody(Drop(s, Len(q))) # None
         IN DoiBody(Drop(s, Len(pat)))
    ELSE None

\* SHORTDOI_RE = ^(https?://)?(dx.)?doi.org/(?P<shortdoi>[a-z0-9]+)$, ignoring case
SHORTDOI_RE(s) ==
    \E pat \in DoiPrefixes \ {<<"d", "o", "i", ":">>} :
        /\ MatchesAt(s, pat)
        /\ Len(s) > Len(pat)
        /\ \A i \in (Len(pat) + 1)..Len(s) :
              s[i] \in DigitChars \/ \E k \in 1..Len(LowerSeq) : LowerSeq[k] = LowerChar(s[i])

\* get_normalised_DOI; location is the Location header of the 301 answer the
\* short-DOI resolver gives (None for any other answer or an HTTP/URL error)
get_normalised_DOI(doi_string, location) ==
    LET s == Strip(doi_string) IN
    IF DOI_RE(s) # None THEN Lower(DOI_RE(s))
    ELSE IF SHORTDOI_RE(s) /\ location # None /\ DOI_RE(location) # None
    THEN Lower(DOI_RE(location))
    ELSE None

\* COLUMN_SCHEMAS
COLUMN_SCHEMAS == [
    journal_article |-> <<"institution", "period", "euro", "doi", "is_hybrid", "publisher",
        "journal_full_title", "issn", "issn_print", "issn_electronic", "issn_l",
        "license_ref", "indexed_in_crossref", "pmid", "pmcid", "ut", "url", "doaj">>,
    journal_article_transagree |-> <<"institution", "period", "euro", "doi", "is_hybrid",
        "publisher", "journal_full_title", "issn", "issn_print", "issn_electronic", "issn_l",
        "license_ref", "indexed_in_crossref", "pmid", "pmcid", "ut", "url", "doaj",
        "agreement">>,
    book_title |-> <<"institution", "period", "euro", "doi", "backlist_oa", "publisher",
        "book_title", "isbn", "isbn_print", "isbn_electronic", "license_ref",
        "indexed_in_crossref", "doab">> ]

-----------------------------------------------------------------------------
(* Logging and the field normalisers of process_row                        *)

\* numbers of records logged at the levels error, warning and info
Logged(e, w, i) == [error |-> e, warning |-> w, info |-> i]
NoLog == Logged(0, 0, 0)
LogError == Logged(1, 0, 0)
LogWarning == Logged(0, 1, 0)
LogInfo == Logged(0, 0, 1)
AddLog(a, b) == Logged(a.error + b.error, a.warning + b.warning, a.info + b.info)

\* a value together with what was logged while computing it
Out(v, l) == [v |-> v, log |-> l]

RECURSIVE StripLeadingZeros(_)
StripLeadingZeros(s) ==
    IF s # <<>> /\ Head(s) = "0" THEN StripLeadingZeros(Tail(s)) ELSE s
RECURSIVE StripTrailingZeros(_)
StripTrailingZeros(s) ==
    IF s # <<>> /\ s[Len(s)] = "0" THEN StripTrailingZeros(SubSeq(s, 1, Len(s) - 1)) ELSE s

\* str(n) for an int n >= 0
RECURSIVE DigitsOf(_)
DigitsOf(n) == IF n < 10 THEN <<DigitSeq[n + 1]>>
               ELSE DigitsOf(n \div 10) \o <<DigitSeq[(n % 10) + 1]>>

\* locale.atof(s) for the decimal mark ".": the sign, the integer digits
\* without leading zeros and the fractional digits without trailing zeros;
\* ok is FALSE where float() raises ValueError
ParseFloat(s) ==
    LET t == Strip(s)
        neg == t # <<>> /\ Head(t) = "-"
        u == IF t # <<>> /\ Head(t) \in {"-", "+"} THEN Tail(t) ELSE t
        parts == SplitOn(u, ".")
        ip == parts[1]
        fp == IF Len(parts) = 2 THEN parts[2] ELSE <<>>
    IN IF /\ Len(parts) <= 2
          /\ AllDigits(ip) /\ AllDigits(fp)
          /\ Len(ip) + Len(fp) > 0
       THEN [ok |-> TRUE, neg |-> neg, ip |-> StripLeadingZeros(ip),
             fp |-> StripTrailingZeros(fp)]
       ELSE [ok |-> FALSE]

FloatIsZero(f) == f.ip = <<>> /\ f.fp = <<>>
\* float.is_integer()
FloatIsInteger(f) == f.fp = <<>>
IntDigits(f) == IF f.ip = <<>> THEN <<"0">> ELSE f.ip
\* str(int(f)) of an integral float
IntStr(f) == (IF f.neg /\ ~FloatIsZero(f) THEN <<"-">> ELSE <<>>) \o IntDigits(f)
\* the number of zeros between the decimal mark and the first other digit
LeadingZeros(fp) == Len(fp) - Len(StripLeadingZeros(fp))
\* str(f) is written with an exponent: the value is below 0.0001 (values
\* from 1e16 on do not occur: ParseFloat stands for float() only on strings
\* of at most 15 significant digits, which a float holds exactly enough for
\* str to give them back)
UsesExponent(f) == f.ip = <<>> /\ f.fp # <<>> /\ LeadingZeros(f.fp) >= 4
\* str(f) of a float below 0.0001, such as 1e-05 and 1.2345e-05
FloatExpStr(f) ==
    (IF f.neg THEN <<"-">> ELSE <<>>)
    \o <<Head(StripLeadingZeros(f.fp))>>
    \o (IF Len(StripLeadingZeros(f.fp)) > 1
        THEN <<".">> \o Tail(StripLeadingZeros(f.fp)) ELSE <<>>)
    \o <<"e", "-">>
    \o (IF LeadingZeros(f.fp) + 1 < 10 THEN <<"0">> ELSE <<>>)
    \o DigitsOf(LeadingZeros(f.fp) + 1)
\* the positional writing of str(f)
FloatPosStr(f) ==
    (IF f.neg THEN <<"-">> ELSE <<>>) \o IntDigits(f) \o <<".">>
    \o (IF f.fp = <<>> THEN <<"0">> ELSE f.fp)
\* str(f) of a float
FloatStr(f) == IF UsesExponent(f) THEN FloatExpStr(f) ELSE FloatPosStr(f)

\* re.match(r"^\d+\.\d{3}", s)
EURO_RE(s) ==
    /\ DigitRun(s, 1) > 0
    /\ Len(s) >= DigitRun(s, 1) + 4
    /\ s[DigitRun(s, 1) + 1] = "."
    /\ AllDigits(SubSeq(s, DigitRun(s, 1) + 2, DigitRun(s, 1) + 4))

\* the decimal digits after the second fractional digit are exactly "5"
IsTie(f) == Len(f.fp) > 2 /\ Drop(f.fp, 2) = <<"5">>
\* round(f, 2) of a non-negative float; tie_up tells which neighbour the
\* binary value of a decimal tie is nearer to
Round2(f, tie_up) ==
    IF Len(f.fp) <= 2 THEN f
    ELSE LET rest == Drop(f.fp, 2)
             up == IF IsTie(f) THEN tie_up ELSE DigitVal(rest[1]) >= 5
             hundredths == IntOf(IntDigits(f) \o Take(f.fp, 2)) + (IF up THEN 1 ELSE 0)
         IN [ok |-> TRUE, neg |-> f.neg,
             ip |-> StripLeadingZeros(DigitsOf(hundredths \div 100)),
             fp |-> StripTrailingZeros(<<DigitSeq[((hundredths % 100) \div 10) + 1],
                                        DigitSeq[(hundredths % 10) + 1]>>)]

\* float() also takes the writings of not-a-number and of infinity, in any
\* case and with a sign
SpecialFloats == {<<"n", "a", "n">>, <<"i", "n", "f">>, <<"i", "n", "f", "i", "n", "i", "t", "y">>}
Unsigned(t) == IF t # <<>> /\ Head(t) \in {"-", "+"} THEN Tail(t) ELSE t
IsSpecialFloat(s) == Lower(Unsigned(Strip(s))) \in SpecialFloats
\* str(float(s)) of such a writing: nan, inf or -inf
SpecialFloatStr(s) ==
    IF Lower(Unsigned(Strip(s))) = <<"n", "a", "n">> THEN <<"n", "a", "n">>
    ELSE (IF Head(Strip(s)) = "-" THEN <<"-">> ELSE <<>>) \o <<"i", "n", "f">>

\* _process_euro_value
process_euro_value(euro_value, round_monetary, offsetting_mode, tie_up) ==
    LET lvl == IF offsetting_mode = None THEN LogError ELSE LogWarning
        f == ParseFloat(euro_value)
    IN IF ~has_value(euro_value) THEN Out(NA, lvl)
       ELSE IF IsSpecialFloat(euro_value) THEN Out(SpecialFloatStr(euro_value), NoLog)
       ELSE IF ~f.ok THEN Out(NA, LogError)
       ELSE IF FloatIsInteger(f)
            THEN Out(IntStr(f), IF FloatIsZero(f) THEN lvl ELSE NoLog)
       ELSE IF EURO_RE(FloatStr(f))
            THEN IF round_monetary
                 THEN LET r == Round2(f, tie_up)
                      IN Out(FloatStr(r),
                             AddLog(LogWarning, IF FloatIsZero(r) THEN lvl ELSE NoLog))
                 ELSE Out(FloatStr(f), LogError)
            ELSE Out(FloatStr(f), NoLog)

\* ^\d{4}-[0-1]{1}\d(-[0-3]{1}\d)?$
PERIOD_RE(s) ==
    /\ Len(s) \in {7, 10}
    /\ AllDigits(SubSeq(s, 1, 4))
    /\ s[5] = Hy /\ s[6] \in {"0", "1"} /\ s[7] \in DigitChars
    /\ Len(s) = 10 => (s[8] = Hy /\ s[9] \in {"0", "1", "2", "3"} /\ s[10] \in DigitChars)

\* _process_period_value
process_period_value(period_value) ==
    IF PERIOD_RE(period_value) THEN Out(Take(period_value, 4), LogInfo)
    ELSE Out(period_value, NoLog)

\* mappings.HYBRID_STATUS
HYBRID_STATUS == [TRUE |-> {<<"t", "r", "u", "e">>, <<"y", "e", "s">>}, FALSE |-> {<<"f", "a", "l", "s", "e">>, <<"n", "o">>}]

\* get_hybrid_status_from_whitelist
get_hybrid_status_from_whitelist(hybrid_status) ==
    IF Lower(Strip(hybrid_status)) \in HYBRID_STATUS["TRUE"] THEN TRUE_STR
    ELSE IF Lower(Strip(hybrid_status)) \in HYBRID_STATUS["FALSE"] THEN FALSE_STR
    ELSE None

\* _process_hybrid_status
process_hybrid_status(hybrid_status) ==
    LET norm_value == get_hybrid_status_from_whitelist(hybrid_status) IN
    IF ~has_value(hybrid_status) THEN Out(NA, LogError)
    ELSE IF norm_value = None THEN Out(hybrid_status, LogError)
    ELSE IF norm_value # hybrid_status THEN Out(norm_value, LogWarning)
    ELSE Out(hybrid_status, NoLog)

-----------------------------------------------------------------------------
(* Collaborators of process_row: column map, registries, lookups           *)

\* the names of the fields of the three schemas
SchemaFields ==
    UNION {{COLUMN_SCHEMAS[t][i] : i \in 1..Len(COLUMN_SCHEMAS[t])} : t \in DOMAIN COLUMN_SCHEMAS}

\* the overwrite policies of a column
KeepExisting == "keep-existing"
PreferNew == "prefer-new"
PreferNewIfEmpty == "prefer-new-if-existing-is-empty"

\* CSVColumn.check_overwrite
check_overwrite(policy, old_value, new_value) ==
    IF policy = KeepExisting THEN old_value
    ELSE IF policy = PreferNew THEN new_value
    ELSE IF has_value(old_value) THEN old_value ELSE new_value

\* the columns of the input file: the index of each mapped field in the row
\* (0 for None, a field without a column)
ColumnIndex(field) ==
    CASE field = "institution" -> 1
      [] field = "period" -> 2
      [] field = "euro" -> 3
      [] field = "doi" -> 4
      [] field = "is_hybrid" -> 5
      [] field = "issn" -> 6
      [] field = "isbn" -> 7
      [] OTHER -> 0

ColumnPolicy(field) ==
    CASE field = "publisher" -> PreferNewIfEmpty
      [] field = "license_ref" -> KeepExisting
      [] OTHER -> PreferNew

\* column_map: a CSVColumn (index, overwrite policy) for each of the given fields
ColumnMap(fields) ==
    [f \in fields |-> [column_type |-> f, index |-> ColumnIndex(f), overwrite |-> ColumnPolicy(f)]]

\* DOAJAnalysis.doaj_issn_map and doaj_eissn_map
doaj_issn_map == [k \in {<<"1", "2", "3", "4", "-", "5", "6", "7", "8">>} |-> <<"Journal A">>]
doaj_eissn_map == [k \in {<<"1", "2", "3", "4", "-", "5", "6", "7", "X">>} |-> <<"Journal B">>]

\* DOAJAnalysis.lookup
doaj_lookup(any_issn) ==
    IF any_issn \in DOMAIN doaj_issn_map THEN doaj_issn_map[any_issn]
    ELSE IF any_issn \in DOMAIN doaj_eissn_map THEN doaj_eissn_map[any_issn]
    ELSE None

\* DOABAnalysis.isbn_map
doab_isbn_map ==
    [k \in {<<"9", "7", "8", "-", "0", "-", "5", "7", "1", "-", "2", "3", "4", "5", "6", "-", "7">>} |->
        [Title |-> <<"DOAB title">>, Publisher |-> <<"DOAB publisher">>,
         License |-> <<"DOAB license">>]]

\* DOABAnalysis.lookup returns a result (not None)
doab_listed(isbn) ==
    LET res == test_and_normalize_isbn(isbn) IN
    res.valid /\ res.normalised \in DOMAIN doab_isbn_map

\* the dict DOABAnalysis.lookup returns for a listed ISBN
doab_entry(normalised) ==
    [book_title |-> doab_isbn_map[normalised].Title,
     publisher |-> doab_isbn_map[normalised].Publisher,
     license_ref |-> doab_isbn_map[normalised].License]

\* DOABAnalysis.lookup
doab_lookup(isbn) ==
    IF doab_listed(isbn) THEN doab_entry(test_and_normalize_isbn(isbn).normalised)
    ELSE None

\* mappings.PUBLISHER_MAPPINGS and mappings.JOURNAL_MAPPINGS
PUBLISHER_MAPPINGS ==
    [k \in {<<"Springer Science and Business Media LLC">>} |-> <<"Springer Nature">>]
JOURNAL_MAPPINGS == [k \in {<<"J. A">>} |-> <<"Journal A">>]

\* get_unified_publisher_name
get_unified_publisher_name(publisher) ==
    IF publisher \in DOMAIN PUBLISHER_MAPPINGS THEN PUBLISHER_MAPPINGS[publisher]
    ELSE publisher
\* get_unified_journal_title
get_unified_journal_title(title) ==
    IF title \in DOMAIN JOURNAL_MAPPINGS THEN JOURNAL_MAPPINGS[title] ELSE title

\* int(s) returns a value (s is an optionally signed string of digits)
IsIntStr(s) ==
    LET t == Strip(s)
        u == IF t # <<>> /\ Head(t) \in {"-", "+"} THEN Tail(t) ELSE t
    IN u # <<>> /\ AllDigits(u)
\* int(s) for such a string
SignedInt(s) ==
    LET t == Strip(s) IN
    IF Head(t) = "-" THEN 0 - IntOf(Tail(t))
    ELSE IF Head(t) = "+" THEN IntOf(Tail(t)) ELSE IntOf(t)

SpringerPrefixes == {<<"Springer (Biomed Central Ltd.)">>, <<"Springer-Verlag">>,
                     <<"Springer - Psychonomic Society">>}
NaturePrefixes == {<<"Nature Publishing Group">>,
                   <<"Nature Publishing Group - Macmillan Publishers">>}

\* _process_crossref_results raises ValueError: int(current_row["period"])
process_crossref_results_raises(cur, key, value) ==
    value # None /\ key = "publisher" /\ ~IsIntStr(cur["period"])

\* _process_crossref_results
process_crossref_results(cur, prefix, key, value) ==
    IF value = None THEN Out(NA, NoLog)
    ELSE IF key = "journal_full_title"
    THEN Out(get_unified_journal_title(value),
             IF get_unified_journal_title(value) # value THEN LogWarning ELSE NoLog)
    ELSE IF key = "publisher"
    THEN LET unified_value == get_unified_publisher_name(value)
             l == IF unified_value # value THEN LogWarning ELSE NoLog
         IN IF /\ ~process_crossref_results_raises(cur, key, value)
               /\ SignedInt(cur["period"]) < 2015 /\ unified_value = <<"Springer Nature">>
            THEN IF prefix \in SpringerPrefixes
                 THEN Out(<<"Springer Science + Business Media">>, AddLog(l, LogWarning))
                 ELSE IF prefix \in NaturePrefixes
                 THEN Out(<<"Nature Publishing Group">>, AddLog(l, LogWarning))
                 ELSE Out(unified_value, AddLog(l, LogError))
            ELSE Out(unified_value, l)
    ELSE IF key \in {"issn", "issn_print", "issn_electronic"}
    THEN \* re.match(r"^\d{7}[\dxX]$", value)
         IF Len(value) = 8 /\ AllDigits(Take(value, 7)) /\ value[8] \in DigitChars \cup {"x", "X"}
         THEN Out(Take(value, 4) \o <<Hy>> \o Drop(value, 4), LogWarning)
         ELSE Out(value, NoLog)
    ELSE Out(value, NoLog)

\* _process_isbn taking the repair branch for the bad segmentation (error_type 3)
process_isbn_result_repairs(isbn0, norm_res, unhyphenated_res) ==
    IF ~has_value(isbn0) THEN Out(NA, NoLog)
    ELSE IF norm_res.valid
    THEN Out(norm_res.normalised,
             IF norm_res.normalised # norm_res.input_value THEN LogInfo ELSE NoLog)
    ELSE IF norm_res.error_type = 3
    THEN Out(unhyphenated_res.normalised, LogInfo)
    ELSE Out(NA, LogWarning)

\* _process_isbn, given norm_res = test_and_normalize_isbn(isbn) and
\* what the function returns for the ISBN with the hyphens removed
process_isbn_result(isbn0, norm_res, unhyphenated_res) ==
    IF ~has_value(isbn0) THEN Out(NA, NoLog)
    ELSE IF norm_res.valid
    THEN Out(norm_res.normalised,
             IF norm_res.normalised # norm_res.input_value THEN LogInfo ELSE NoLog)
    ELSE IF norm_res.error_type = 4
    THEN Out(unhyphenated_res.normalised, LogInfo)
    ELSE Out(NA, LogWarning)

\* _process_isbn
process_isbn(isbn0) ==
    process_isbn_result(isbn0, test_and_normalize_isbn(RemoveChar(isbn0, Sp)),
                        test_and_normalize_isbn(RemoveChar(RemoveChar(isbn0, Sp), Hy)))

-----------------------------------------------------------------------------
(* The external resolvers and the steps of process_row                     *)

\* the largest crossref_max_retries a caller passes
MaxRetries == 1
\* the largest number of restarts followed for one row
MaxDepth == 2
\* the default of the parameter crossref_max_retries
DefaultMaxRetries == 3

\* the value None of the local record_type and of r_type
NoType == "None"

Msg504 == <<"HTTPError: 504 - Gateway Timeout">>
Msg404 == <<"HTTPError: 404 - Not Found">>
MsgParse == <<"Parse Error: no valid DOI">>
\* a retry condition that holds for every failure
Is504_any(msg) == TRUE

\* error_msg.startswith("HTTPError: 504")
Is504(msg) == msg = Msg504

Failure(msg) == [success |-> FALSE, error_msg |-> msg]

ArticleData == [doi_type |-> "journal_article",
    publisher |-> <<"Springer Science and Business Media LLC">>,
    prefix |-> <<"Springer-Verlag">>, journal_full_title |-> <<"J. A">>,
    issn |-> <<"1", "2", "3", "4", "5", "6", "7", "8">>, issn_print |-> None, issn_electronic |-> <<"1", "2", "3", "4", "-", "5", "6", "7", "X">>,
    license_ref |-> <<"CC BY">>]
BookData == [doi_type |-> "book_title", prefix |-> <<"Some Press">>,
    publisher |-> <<"Some Press">>, book_title |-> <<"A Book">>,
    isbn |-> <<"9", "7", "8", "0", "5", "7", "1", "2", "3", "4", "5", "6", "7">>, isbn_print |-> None, isbn_electronic |-> None,
    license_ref |-> None]

\* the keys of the data the resolver returns, in the order of the dict
DataKeys(data) ==
    IF data.doi_type = "journal_article"
    THEN <<"publisher", "journal_full_title", "issn", "issn_print", "issn_electronic",
           "license_ref">>
    ELSE <<"publisher", "book_title", "isbn", "isbn_print", "isbn_electronic", "license_ref">>

\* what get_metadata_from_crossref can return for a DOI string
CrossrefAnswers(doi_string) ==
    IF get_normalised_DOI(doi_string, None) = None THEN {Failure(MsgParse)}
    ELSE {[success |-> TRUE, data |-> ArticleData], [success |-> TRUE, data |-> BookData],
          Failure(Msg504), Failure(Msg404)}

\* what get_metadata_from_pubmed can return for a DOI string
PubmedAnswers(doi_string) ==
    IF get_normalised_DOI(doi_string, None) = None THEN {Failure(MsgParse)}
    ELSE {[success |-> TRUE, data |-> [pmid |-> <<"1", "2", "3">>, pmcid |-> None]], Failure(Msg404)}

FoundA == <<"1", "0", ".", "2", "/", "b">>
FoundB == <<"1", "0", ".", "3", "/", "c">>
\* what find_book_dois_in_crossref can return for a non-empty list of ISBNs
IsbnAnswers == {
    [success |-> FALSE, dois |-> <<>>, error_msg |-> Msg404],
    [success |-> TRUE, dois |-> <<>>],
    [success |-> TRUE, dois |-> <<FoundA>>],
    [success |-> TRUE, dois |-> <<FoundA, FoundB>>] }

IsbnFields == <<"isbn", "isbn_print", "isbn_electronic">>

\* the list collected_isbns of _isbn_lookup
lookup_collected_isbns(cur, additional_isbns) ==
    SelectSeq([i \in 1..Len(IsbnFields) |-> cur[IsbnFields[i]]], has_value)
    \o SelectSeq(additional_isbns, has_value)

\* what _isbn_lookup appends to query_isbns for one collected ISBN
query_isbns_of(res) ==
    IF ~res.valid THEN <<>>
    ELSE IF res.input_value # res.normalised THEN <<res.input_value, res.normalised>>
    ELSE <<res.input_value>>

\* the list query_isbns of _isbn_lookup
RECURSIVE lookup_query_isbns(_)
lookup_query_isbns(collected) ==
    IF collected = <<>> THEN <<>>
    ELSE query_isbns_of(test_and_normalize_isbn(Head(collected)))
         \o lookup_query_isbns(Tail(collected))

\* the number of ISBNs _isbn_lookup warns about
lookup_invalid_isbns(collected) ==
    Len(SelectSeq(collected, LAMBDA x : ~test_and_normalize_isbn(x).valid))

\* find_book_dois_in_crossref is reached by _isbn_lookup
lookup_calls_crossref(cur, additional_isbns) ==
    lookup_collected_isbns(cur, additional_isbns) # <<>>

\* what _isbn_lookup returns and logs
LookupResult(d, t, l, r) == [found_doi |-> d, r_type |-> t, log |-> l, raised |-> r]

\* _isbn_lookup assuming a book where no ISBN was collected
isbn_lookup_result_book(collected, query_isbns, warned, cr_res) ==
    IF collected = <<>> THEN LookupResult(None, "book_title", LogWarning, FALSE)
    ELSE IF query_isbns = <<>> THEN LookupResult(None, NoType, warned, TRUE)
    ELSE IF ~cr_res.success
    THEN LookupResult(None, "book_title", AddLog(warned, LogError), FALSE)
    ELSE IF Len(cr_res.dois) = 0
    THEN LookupResult(None, "book_title", AddLog(warned, LogInfo), FALSE)
    ELSE IF Len(cr_res.dois) > 1
    THEN LookupResult(cr_res.dois[1], NoType, AddLog(warned, LogWarning), FALSE)
    ELSE LookupResult(cr_res.dois[1], NoType, AddLog(warned, LogInfo), FALSE)

\* _isbn_lookup, given its lists collected_isbns and query_isbns and what it
\* logged about invalid ISBNs; cr_res is the answer of find_book_dois_in_crossref.
\* raised: find_book_dois_in_crossref raised ValueError (empty list)
isbn_lookup_result(collected, query_isbns, warned, cr_res) ==
    LET R(d, t, l, r) == LookupResult(d, t, l, r)
    IN IF collected = <<>> THEN R(None, "journal_article", LogWarning, FALSE)
       ELSE IF query_isbns = <<>> THEN R(None, NoType, warned, TRUE)
       ELSE IF ~cr_res.success THEN R(None, "book_title", AddLog(warned, LogError), FALSE)
       ELSE IF Len(cr_res.dois) = 0
       THEN R(None, "book_title", AddLog(warned, LogInfo), FALSE)
       ELSE IF Len(cr_res.dois) > 1
       THEN R(cr_res.dois[1], NoType, AddLog(warned, LogWarning), FALSE)
       ELSE R(cr_res.dois[1], NoType, AddLog(warned, LogInfo), FALSE)

\* _isbn_lookup
isbn_lookup(cur, additional_isbns, cr_res) ==
    isbn_lookup_result(lookup_collected_isbns(cur, additional_isbns),
        lookup_query_isbns(lookup_collected_isbns(cur, additional_isbns)),
        Logged(0, lookup_invalid_isbns(lookup_collected_isbns(cur, additional_isbns)), 0),
        cr_res)

\* the loop that copies the mapped columns into current_row (with the
\* special rules for euro, period and is_hybrid): the value of one field
copied_field(f, r, c, tie_up) ==
    LET index == c.column_map[f].index IN
    IF f = "euro" /\ index # 0
    THEN process_euro_value(r[index], c.round_monetary, c.offsetting_mode, tie_up)
    ELSE IF f = "period" THEN process_period_value(r[index])
    ELSE IF f = "is_hybrid" /\ index # 0 THEN process_hybrid_status(r[index])
    ELSE IF index # 0 /\ Len(r[index]) > 0 THEN Out(r[index], NoLog)
    ELSE Out(NA, NoLog)

copied_row(r, c, tie_up) ==
    [f \in DOMAIN c.column_map |-> copied_field(f, r, c, tie_up).v]

copied_log(r, c, tie_up) ==
    AddLog(copied_field("euro", r, c, tie_up).log,
           AddLog(copied_field("period", r, c, tie_up).log,
                  copied_field("is_hybrid", r, c, tie_up).log))

\* [row[i] for i in additional_isbn_columns]
additional_isbns_of(r, c) ==
    [i \in 1..Len(c.additional_isbn_columns) |-> r[c.additional_isbn_columns[i]]]

\* the merge loop storing every offered value without asking the policy
RECURSIVE merge_crossref_unchecked(_, _, _, _)
merge_crossref_unchecked(cur, c, data, keys) ==
    IF keys = <<>> THEN Out(cur, NoLog)
    ELSE LET key == Head(keys)
             new == process_crossref_results(cur, data.prefix, key, data[key])
             cur2 == [cur EXCEPT ![key] = new.v]
             rest == merge_crossref_unchecked(cur2, c, data, Tail(keys))
         IN Out(rest.v, AddLog(new.log, rest.log))

\* the merge loop over the data of the Crossref answer
RECURSIVE merge_crossref(_, _, _, _)
merge_crossref(cur, c, data, keys) ==
    IF keys = <<>> THEN Out(cur, NoLog)
    ELSE LET key == Head(keys)
             new == process_crossref_results(cur, data.prefix, key, data[key])
             cur2 == [cur EXCEPT ![key] =
                         check_overwrite(c.column_map[key].overwrite, cur[key], new.v)]
             rest == merge_crossref(cur2, c, data, Tail(keys))
         IN Out(rest.v, AddLog(new.log, rest.log))

\* the merge loop over the data of the PubMed answer
merge_pubmed(cur, c, data) ==
    [cur EXCEPT
        !["pmid"] = check_overwrite(c.column_map["pmid"].overwrite, cur["pmid"],
                                    IF data.pmid # None THEN data.pmid ELSE NA),
        !["pmcid"] = check_overwrite(c.column_map["pmcid"].overwrite, cur["pmcid"],
                                     IF data.pmcid # None THEN data.pmcid ELSE NA)]

\* if lookup_result: (None and the empty title are false)
doaj_found(any_issn) == doaj_lookup(any_issn) # None /\ doaj_lookup(any_issn) # <<>>

\* the loop of the DOAJ step over the ISSNs found in the row, in their order
doaj_tried(cur, c, issns) ==
    LET hit == \E i \in 1..Len(issns) : doaj_found(issns[i])
        new_value == IF issns = <<>> THEN NA ELSE IF hit THEN TRUE_STR ELSE FALSE_STR
        tried == IF hit THEN FirstIndex(Len(issns), LAMBDA i : doaj_found(issns[i]))
                 ELSE Len(issns)
    IN [v |-> [cur EXCEPT !["doaj"] = check_overwrite(c.column_map["doaj"].overwrite,
                                                      cur["doaj"], new_value)],
        log |-> Logged(0, 0, tried), lookups |-> tried]

\* the DOAJ step trying the print ISSN first and the electronic ISSN last
doaj_step_print_first(cur, c) ==
    doaj_tried(cur, c, SelectSeq(<<cur["issn_print"], cur["issn"], cur["issn_electronic"]>>,
                                 LAMBDA x : x # NA))

\* the DOAJ step of process_row
doaj_step(cur, c) ==
    doaj_tried(cur, c, SelectSeq(<<cur["issn_electronic"], cur["issn"], cur["issn_print"]>>,
                                 LAMBDA x : x # NA))

\* the book step of process_row: the three ISBN fields after _process_isbn
book_isbn_fields(cur) ==
    [cur EXCEPT !["isbn"] = process_isbn(cur["isbn"]).v,
                !["isbn_print"] = process_isbn(cur["isbn_print"]).v,
                !["isbn_electronic"] = process_isbn(cur["isbn_electronic"]).v]

\* the list collected_isbns of the book step; cur2 holds the processed fields
book_collected_isbns(cur2, additional_isbns) ==
    SelectSeq([i \in 1..Len(IsbnFields) |-> cur2[IsbnFields[i]]], has_value)
    \o SelectSeq([i \in 1..Len(additional_isbns) |-> process_isbn(additional_isbns[i]).v],
                 has_value)

\* what _process_isbn logs for the ISBNs of the sequence all, from index i on
RECURSIVE book_isbn_log(_, _)
book_isbn_log(all, i) ==
    IF i > Len(all) THEN NoLog
    ELSE AddLog(process_isbn(all[i]).log, book_isbn_log(all, i + 1))

\* the DOAB result taken over whether or not Crossref had the DOI
book_found_replacing(cur2, isbn, doab_result) ==
    [cur2 EXCEPT !["book_title"] = doab_result.book_title,
                 !["publisher"] = doab_result.publisher,
                 !["license_ref"] = doab_result.license_ref,
                 !["doab"] = TRUE_STR,
                 !["isbn"] = IF has_value(cur2["isbn"]) THEN @ ELSE isbn]

\* the DOAB result is taken over (unless Crossref already had the DOI)
book_found(cur2, isbn, doab_result) ==
    [(IF cur2["indexed_in_crossref"] = TRUE_STR THEN cur2
      ELSE [cur2 EXCEPT !["book_title"] = doab_result.book_title,
                        !["publisher"] = doab_result.publisher,
                        !["license_ref"] = doab_result.license_ref])
     EXCEPT !["doab"] = TRUE_STR,
            !["isbn"] = IF has_value(cur2["isbn"]) THEN @ ELSE isbn]

\* the DOAB lookup of the book step; l is what has been logged so far
book_lookup(cur2, collected, l) ==
    IF collected = <<>>
    THEN [v |-> [cur2 EXCEPT !["doab"] = NA], log |-> l, book |-> FALSE, lookups |-> 0]
    ELSE IF ~\E i \in 1..Len(collected) : doab_listed(collected[i])
    THEN [v |-> [cur2 EXCEPT !["doab"] = FALSE_STR], log |-> AddLog(l, LogInfo),
          book |-> TRUE, lookups |-> Len(collected)]
    ELSE [v |-> book_found(cur2,
                    collected[FirstIndex(Len(collected), LAMBDA i : doab_listed(collected[i]))],
                    doab_lookup(collected[FirstIndex(Len(collected),
                                                     LAMBDA i : doab_listed(collected[i]))])),
          log |-> AddLog(l, IF cur2["indexed_in_crossref"] = TRUE_STR
                            THEN Logged(0, 0, 2) ELSE LogInfo),
          book |-> TRUE,
          lookups |-> FirstIndex(Len(collected), LAMBDA i : doab_listed(collected[i]))]

\* the book step of process_row (taken when record_type is not journal_article)
book_step(cur, additional_isbns) ==
    book_lookup(book_isbn_fields(cur),
        book_collected_isbns(book_isbn_fields(cur), additional_isbns),
        AddLog(book_isbn_log([i \in 1..Len(IsbnFields) |-> cur[IsbnFields[i]]]
                             \o additional_isbns, 1),
               LogInfo))

\* the fields of the schema taken in reverse order
projection_reversed(cur, r_type) ==
    [i \in 1..Len(COLUMN_SCHEMAS[r_type]) |->
        cur[COLUMN_SCHEMAS[r_type][Len(COLUMN_SCHEMAS[r_type]) + 1 - i]]]

\* [current_row[field] for field in COLUMN_SCHEMAS[record_type]]
projection(cur, r_type) ==
    [i \in 1..Len(COLUMN_SCHEMAS[r_type]) |-> cur[COLUMN_SCHEMAS[r_type][i]]]

KeyError == [exception |-> "KeyError"]

-----------------------------------------------------------------------------
(* The rows and arguments process_row is called with                       *)

Institution == <<"Uni">>
AgreementTag == <<"DEAL">>
IsbnPlain == <<"9", "7", "8", "0", "5", "7", "1", "2", "3", "4", "5", "6", "7">>
IsbnSplit == <<"9", "7", "8", "-", "3", "-", "5", "7", "1", "-", "2", "3", "4", "5", "6", "-", "7">>
IsbnBad == <<"1", "2", "3">>
DoiPlain == <<"1", "0", ".", "1", "/", "a">>
DoiWritten == <<"d", "o", "i", ":", "1", "0", ".", "1", "/", "A">>
DoiBad == <<"x", "y", "z">>
IssnInDoaj == <<"1", "2", "3", "4", "-", "5", "6", "7", "8">>

\* a row of the input file: institution, period, euro, doi, is_hybrid, issn,
\* isbn and one additional ISBN column
Row(period, euro, d, issn, isbn, isbn2) ==
    <<Institution, period, euro, d, TRUE_STR, issn, isbn, isbn2>>

Args(no_cr, no_pm, no_doaj, round_m, offs, max_retries, fields) ==
    [column_map |-> ColumnMap(fields), num_required_columns |-> 8,
     additional_isbn_columns |-> <<8>>,
     no_crossref_lookup |-> no_cr, no_pubmed_lookup |-> no_pm,
     no_doaj_lookup |-> no_doaj, round_monetary |-> round_m,
     offsetting_mode |-> offs, crossref_max_retries |-> max_retries]

\* rows that differ in their identifiers, with the lookups of the default call
IdentifierCalls ==
    {[row |-> Row(<<"2", "0", "1", "9">>, <<"1", "0", "0", "0">>, d, <<>>, isbn, isbn2),
      cfg |-> Args(no_cr, FALSE, FALSE, FALSE, None, n, SchemaFields)] :
        d \in {<<>>, DoiPlain, DoiWritten, DoiBad}, isbn \in {<<>>, IsbnPlain, IsbnBad},
        isbn2 \in {<<>>, IsbnSplit}, no_cr \in BOOLEAN, n \in 0..MaxRetries}

\* rows without ISBN that differ in the other fields, with differing arguments
FieldCalls ==
    {[row |-> Row(period, euro, d, issn, <<>>, <<>>),
      cfg |-> Args(FALSE, no_pm, no_doaj, round_m, offs, 0, fields)] :
        period \in {<<"2", "0", "1", "4">>, <<"2", "0", "1", "9", "-", "0", "5">>}, euro \in {<<"1", "0", "0", "0">>, <<"1", "2", ".", "3", "4", "5">>},
        d \in {<<>>, DoiPlain}, issn \in {<<>>, IssnInDoaj},
        no_pm \in BOOLEAN, no_doaj \in BOOLEAN, round_m \in BOOLEAN,
        offs \in {None, <<>>, AgreementTag},
        fields \in {SchemaFields, SchemaFields \ {"ut"}}}

\* rows with a column too few or too many
MisshapenCalls ==
    {[row |-> r, cfg |-> Args(FALSE, FALSE, FALSE, FALSE, offs, 0, SchemaFields)] :
        r \in {SubSeq(Row(<<"2", "0", "1", "9">>, <<"1", "0", "0", "0">>, d, <<>>, IsbnPlain, <<>>), 1, 7) : d \in {<<>>, DoiPlain}}
              \cup {Row(<<"2", "0", "1", "9">>, <<"1", "0", "0", "0">>, DoiPlain, <<>>, <<>>, <<>>) \o <<Institution>>},
        offs \in {None, AgreementTag}}

\* an ISSN no registry of the model knows
IssnOwn == <<"8", "7", "6", "5", "-", "4", "3", "2", "1">>

\* rows with a DOI whose issn column has each of the overwrite policies
PolicyCalls ==
    {[row |-> Row(<<"2", "0", "1", "9">>, <<"1", "0", "0", "0">>, DoiPlain, issn, <<>>, <<>>),
      cfg |-> [Args(FALSE, FALSE, FALSE, FALSE, None, 0, SchemaFields)
                  EXCEPT !.column_map["issn"].overwrite = p]] :
        issn \in {<<>>, IssnOwn}, p \in {KeepExisting, PreferNew, PreferNewIfEmpty}}

\* rows whose columns 5 to 8 hold the doaj value and the three ISSNs, with
\* each overwrite policy for the doaj column, and the column map for them
DoajColumns(policy) ==
    [ColumnMap(SchemaFields) EXCEPT
        !["doaj"] = [column_type |-> "doaj", index |-> 5, overwrite |-> policy],
        !["is_hybrid"].index = 0, !["isbn"].index = 0,
        !["issn_electronic"].index = 7, !["issn_print"].index = 8]
DoajCalls ==
    {[row |-> <<Institution, <<"2", "0", "1", "9">>, <<"1", "0", "0", "0">>, <<>>, old, issn, eissn, pissn>>,
      cfg |-> [Args(FALSE, FALSE, FALSE, FALSE, None, 0, SchemaFields)
                  EXCEPT !.column_map = DoajColumns(p), !.additional_isbn_columns = <<>>]] :
        old \in {<<>>, TRUE_STR}, issn \in {<<>>, IssnInDoaj, IssnOwn},
        eissn \in {<<>>, IssnInDoaj, IssnOwn}, pissn \in {<<>>, IssnInDoaj, IssnOwn},
        p \in {KeepExisting, PreferNew, PreferNewIfEmpty}}

\* rows whose additional ISBN column holds the ISBN the DOAB lists
BookCalls ==
    {[row |-> Row(<<"2", "0", "1", "9">>, <<"1", "0", "0", "0">>, d, <<>>, isbn, IsbnPlain),
      cfg |-> Args(FALSE, FALSE, FALSE, FALSE, None, 0, SchemaFields)] :
        d \in {<<>>, DoiPlain}, isbn \in {<<>>, IsbnSplit, IsbnBad}}

\* rows with a DOI for which Crossref is not asked, with and without a tag
NoCrossrefCalls ==
    {[row |-> Row(<<"2", "0", "1", "9">>, <<"1", "0", "0", "0">>, DoiPlain, <<>>, <<>>, <<>>),
      cfg |-> Args(TRUE, FALSE, FALSE, FALSE, offs, 0, SchemaFields)] :
        offs \in {None, <<>>, AgreementTag}}

\* rows with a DOI whose period field is empty, NA, a date or other text
PeriodCalls ==
    {[row |-> Row(period, <<"1", "0", "0", "0">>, DoiPlain, <<>>, <<>>, <<>>),
      cfg |-> Args(FALSE, TRUE, TRUE, FALSE, None, 0, SchemaFields)] :
        period \in {<<>>, NA, <<"2", "0", "1", "4", "-", "1", "2", "-", "3", "1">>, <<"2", "0", "1", "9", "-", "0", "5", "-", "1", "7">>, <<"0", "5", "/", "2", "0", "1", "9">>}}

RowCalls ==
    IdentifierCalls \cup FieldCalls \cup MisshapenCalls \cup PolicyCalls \cup DoajCalls
    \cup BookCalls \cup NoCrossrefCalls \cup PeriodCalls

isbnIdle == isbn_in = <<>> /\ isbn_res = NotCalled /\ isbn_again = NotCalled

\* no resolver and no registry has been called
NoCalls == [crossref |-> 0, pubmed |-> 0, isbn |-> 0, doaj |-> 0, doab |-> 0]

Init ==
    /\ mode = "row"
    /\ isbnIdle
    /\ callIdle
    /\ \E c \in RowCalls : row = c.row /\ cfg = c.cfg
    /\ input_row = row
    /\ pc = "start"
    /\ current_row = <<>> /\ record_type = NoType /\ doi = <<>>
    /\ retries = 0 /\ crossref_result = NotCalled
    /\ depth = 0 /\ calls = [pass |-> NoCalls, found |-> {}]
    /\ log = NoLog /\ result = NotCalled

-----------------------------------------------------------------------------
(* The steps of process_row                                                *)

\* process_row returns or raises
Return(value) ==
    /\ result' = value
    /\ pc' = "done"

\* the shape check rejecting only rows that are too short
shape_mismatch_short(r, c) == Len(r) < c.num_required_columns

\* len(row) != num_required_columns
shape_mismatch(r, c) == Len(r) # c.num_required_columns

\* return process_row(row, ..., offsetting_mode) with the found DOI written
\* into the row: the call gets fresh locals, and crossref_max_retries is not
\* passed on
Restart(found_doi) ==
    /\ depth < MaxDepth
    /\ row' = [row EXCEPT ![cfg.column_map["doi"].index] = found_doi]
    /\ cfg' = [cfg EXCEPT !.crossref_max_retries = DefaultMaxRetries]
    /\ depth' = depth + 1
    /\ pc' = "start"
    /\ current_row' = <<>> /\ record_type' = NoType /\ doi' = <<>>
    /\ retries' = 0 /\ crossref_result' = NotCalled
    /\ log' = NoLog
    /\ UNCHANGED result

\* the answers find_book_dois_in_crossref can give inside _isbn_lookup
IsbnAnswersFor(cur, additional_isbns) ==
    IF lookup_query_isbns(lookup_collected_isbns(cur, additional_isbns)) # <<>>
    THEN IsbnAnswers ELSE {NotCalled}

\* calls after _isbn_lookup ran with the answer a
CallsAfterLookup(cur, additional_isbns, a) ==
    [pass |-> [calls.pass EXCEPT !.isbn =
                  IF lookup_calls_crossref(cur, additional_isbns) THEN @ + 1 ELSE @],
     found |-> IF a # NotCalled /\ a.success
               THEN calls.found \cup {Len(a.dois)} ELSE calls.found]

\* the shape check and the copy of the mapped columns
Start ==
    /\ mode = "row" /\ pc = "start"
    /\ IF shape_mismatch(row, cfg)
       THEN /\ log' = AddLog(log, LogError)
            /\ Return([row |-> row])
            /\ UNCHANGED <<current_row, doi>>
       ELSE \E tie_up \in IF IsTie(ParseFloat(row[cfg.column_map["euro"].index]))
                          THEN BOOLEAN ELSE {TRUE} :
            /\ current_row' = copied_row(row, cfg, tie_up)
            /\ log' = AddLog(log, copied_log(row, cfg, tie_up))
            /\ doi' = current_row'["doi"]
            /\ pc' = IF has_value(doi') THEN "crossref" ELSE "resolve"
            /\ UNCHANGED result
    /\ UNCHANGED <<mode, row, cfg, record_type, retries, crossref_result, depth, calls,
                   input_row>>
    /\ UNCHANGED <<isbnVars, callVars>>

\* the row has no DOI: the ISBN reverse lookup
Resolve ==
    /\ mode = "row" /\ pc = "resolve"
    /\ LET cur == [current_row EXCEPT !["indexed_in_crossref"] = FALSE_STR]
           additional_isbns == additional_isbns_of(row, cfg)
       IN \E a \in IsbnAnswersFor(cur, additional_isbns) :
          \E r \in {isbn_lookup(cur, additional_isbns, a)} :
          LET logged == AddLog(AddLog(log, LogInfo), r.log)
          IN /\ calls' = [CallsAfterLookup(cur, additional_isbns, a) EXCEPT
                             !.pass = IF r.found_doi # None THEN NoCalls ELSE @]
             /\ IF r.raised
                THEN /\ Return(ValueError)
                     /\ current_row' = cur /\ log' = logged
                     /\ UNCHANGED <<row, cfg, record_type, doi, retries,
                                    crossref_result, depth>>
                ELSE IF r.found_doi # None
                THEN Restart(r.found_doi)
                ELSE /\ current_row' = cur /\ log' = logged
                     /\ record_type' = IF r.r_type # NoType THEN r.r_type
                                       ELSE record_type
                     /\ pc' = "doaj"
                     /\ UNCHANGED <<row, cfg, doi, retries, crossref_result, depth,
                                    result>>
    /\ UNCHANGED <<mode, input_row>>
    /\ UNCHANGED <<isbnVars, callVars>>

\* the row has a DOI: it is normalised and the metadata resolver is called
Crossref ==
    /\ mode = "row" /\ pc = "crossref"
    /\ \E norm_doi \in {get_normalised_DOI(doi, None)} :
       LET changed == norm_doi # None /\ norm_doi # doi
       IN /\ doi' = IF changed THEN norm_doi ELSE doi
          /\ current_row' = IF changed THEN [current_row EXCEPT !["doi"] = norm_doi]
                            ELSE current_row
          /\ log' = IF changed THEN AddLog(log, LogInfo) ELSE log
    /\ IF cfg.no_crossref_lookup
       THEN /\ pc' = "pubmed"
            /\ UNCHANGED <<crossref_result, retries, calls>>
       ELSE \E a \in CrossrefAnswers(doi') :
            /\ crossref_result' = a
            /\ retries' = 0
            /\ calls' = [calls EXCEPT !.pass.crossref = @ + 1]
            /\ pc' = "retry"
    /\ UNCHANGED <<mode, row, cfg, record_type, depth, result, input_row>>
    /\ UNCHANGED <<isbnVars, callVars>>

\* the resolver answered 504 and the retries are not used up: it is called again
Retry ==
    /\ mode = "row" /\ pc = "retry"
    /\ ~crossref_result.success /\ Is504(crossref_result.error_msg)
    /\ retries < cfg.crossref_max_retries
    /\ log' = AddLog(log, LogWarning)
    /\ retries' = retries + 1
    /\ \E a \in CrossrefAnswers(doi) : crossref_result' = a
    /\ calls' = [calls EXCEPT !.pass.crossref = @ + 1]
    /\ UNCHANGED <<mode, pc, row, cfg, current_row, record_type, doi, depth, result,
                   input_row>>
    /\ UNCHANGED <<isbnVars, callVars>>

\* the resolver answered with metadata: they are merged into current_row
Merge ==
    /\ mode = "row" /\ pc = "retry"
    /\ crossref_result.success
    /\ LET data == crossref_result.data
           cur == [current_row EXCEPT !["indexed_in_crossref"] = TRUE_STR]
           keys == DataKeys(data)
       IN \E merged \in {merge_crossref(cur, cfg, data, keys)} :
          /\ record_type' = data.doi_type
          /\ IF \E i \in 1..Len(keys) : process_crossref_results_raises(cur, keys[i], data[keys[i]])
             THEN /\ Return(ValueError)
                  /\ current_row' = cur
                  /\ log' = AddLog(log, LogInfo)
             ELSE IF \E i \in 1..Len(keys) : keys[i] \notin DOMAIN cfg.column_map
             THEN /\ Return(KeyError)
                  /\ current_row' = cur
                  /\ log' = AddLog(log, LogInfo)
             ELSE /\ current_row' = merged.v
                  /\ log' = AddLog(AddLog(log, LogInfo), merged.log)
                  /\ pc' = "pubmed"
                  /\ UNCHANGED result
    /\ UNCHANGED <<mode, row, cfg, doi, retries, crossref_result, depth, calls, input_row>>
    /\ UNCHANGED <<isbnVars, callVars>>

\* the resolver failed for good: the ISBN reverse lookup looks for another DOI
Fallback ==
    /\ mode = "row" /\ pc = "retry"
    /\ ~crossref_result.success
    /\ ~Is504(crossref_result.error_msg) \/ retries >= cfg.crossref_max_retries
    /\ LET cur == [current_row EXCEPT !["indexed_in_crossref"] = FALSE_STR]
           additional_isbns == additional_isbns_of(row, cfg)
       IN \E a \in IsbnAnswersFor(cur, additional_isbns) :
          \E r \in {isbn_lookup(cur, additional_isbns, a)} :
          LET logged == AddLog(AddLog(log, LogError), r.log)
          IN /\ calls' = [CallsAfterLookup(cur, additional_isbns, a) EXCEPT
                             !.pass = IF r.found_doi # None THEN NoCalls ELSE @]
             /\ IF r.raised
                THEN /\ Return(ValueError)
                     /\ current_row' = cur /\ log' = logged
                     /\ UNCHANGED <<row, cfg, record_type, doi, retries,
                                    crossref_result, depth>>
                ELSE IF r.found_doi # None
                THEN Restart(r.found_doi)
                ELSE /\ current_row' = cur /\ log' = logged
                     /\ record_type' = IF r.r_type # NoType THEN r.r_type
                                       ELSE record_type
                     /\ pc' = "pubmed"
                     /\ UNCHANGED <<row, cfg, doi, retries, crossref_result, depth,
                                    result>>
    /\ UNCHANGED <<mode, input_row>>
    /\ UNCHANGED <<isbnVars, callVars>>

\* the PubMed lookup made whatever no_pubmed_lookup says
Pubmed_always ==
    /\ mode = "row" /\ pc = "pubmed"
    /\ \E a \in PubmedAnswers(doi) :
            /\ calls' = [calls EXCEPT !.pass.pubmed = @ + 1]
            /\ IF a.success
               THEN /\ current_row' = merge_pubmed(current_row, cfg, a.data)
                    /\ log' = AddLog(log, LogInfo)
               ELSE /\ log' = AddLog(log, LogError)
                    /\ UNCHANGED current_row
    /\ pc' = "doaj"
    /\ UNCHANGED <<mode, row, cfg, record_type, doi, retries, crossref_result, depth,
                   result, input_row>>
    /\ UNCHANGED <<isbnVars, callVars>>

\* the PubMed lookup of a row with a DOI
Pubmed ==
    /\ mode = "row" /\ pc = "pubmed"
    /\ IF cfg.no_pubmed_lookup
       THEN UNCHANGED <<current_row, log, calls>>
       ELSE \E a \in PubmedAnswers(doi) :
            /\ calls' = [calls EXCEPT !.pass.pubmed = @ + 1]
            /\ IF a.success
               THEN /\ current_row' = merge_pubmed(current_row, cfg, a.data)
                    /\ log' = AddLog(log, LogInfo)
               ELSE /\ log' = AddLog(log, LogError)
                    /\ UNCHANGED current_row
    /\ pc' = "doaj"
    /\ UNCHANGED <<mode, row, cfg, record_type, doi, retries, crossref_result, depth,
                   result, input_row>>
    /\ UNCHANGED <<isbnVars, callVars>>

\* the lookup in the offline copy of the DOAJ
Doaj ==
    /\ mode = "row" /\ pc = "doaj"
    /\ IF cfg.no_doaj_lookup
       THEN UNCHANGED <<current_row, log, calls>>
       ELSE \E d \in {doaj_step(current_row, cfg)} :
            /\ current_row' = d.v
            /\ log' = AddLog(log, d.log)
            /\ calls' = [calls EXCEPT !.pass.doaj = @ + d.lookups]
    /\ pc' = "book"
    /\ UNCHANGED <<mode, row, cfg, record_type, doi, retries, crossref_result, depth,
                   result, input_row>>
    /\ UNCHANGED <<isbnVars, callVars>>

\* the ISBN normalisation and the lookup in the offline copy of the DOAB
Book ==
    /\ mode = "row" /\ pc = "book"
    /\ IF record_type # "journal_article"
       THEN \E b \in {book_step(current_row, additional_isbns_of(row, cfg))} :
               /\ current_row' = b.v
               /\ log' = AddLog(log, b.log)
               /\ record_type' = IF b.book THEN "book_title" ELSE record_type
               /\ calls' = [calls EXCEPT !.pass.doab = @ + b.lookups]
       ELSE UNCHANGED <<current_row, log, record_type, calls>>
    /\ pc' = "finish"
    /\ UNCHANGED <<mode, row, cfg, doi, retries, crossref_result, depth, result,
                   input_row>>
    /\ UNCHANGED <<isbnVars, callVars>>

\* if offsetting_mode: (None and the empty string are false)
IsTrue(offsetting_mode) == offsetting_mode # None /\ offsetting_mode # <<>>

\* the last step without the error for the defaulted record type
Finish_silent ==
    /\ mode = "row" /\ pc = "finish"
    /\ LET cur == IF IsTrue(cfg.offsetting_mode)
                  THEN [current_row EXCEPT !["agreement"] = cfg.offsetting_mode]
                  ELSE current_row
           r_type == IF IsTrue(cfg.offsetting_mode) THEN "journal_article_transagree"
                     ELSE IF record_type = NoType THEN "journal_article"
                     ELSE record_type
           schema == COLUMN_SCHEMAS[r_type]
       IN /\ current_row' = cur
          /\ record_type' = r_type
          /\ log' = log
          /\ IF \E i \in 1..Len(schema) : schema[i] \notin DOMAIN cur
             THEN Return(KeyError)
             ELSE Return([record_type |-> r_type, values |-> projection(cur, r_type)])
    /\ UNCHANGED <<mode, row, cfg, doi, retries, crossref_result, depth, calls, input_row>>
    /\ UNCHANGED <<isbnVars, callVars>>

\* the agreement override, the default record type and the projection
Finish ==
    /\ mode = "row" /\ pc = "finish"
    /\ LET cur == IF IsTrue(cfg.offsetting_mode)
                  THEN [current_row EXCEPT !["agreement"] = cfg.offsetting_mode]
                  ELSE current_row
           r_type == IF IsTrue(cfg.offsetting_mode) THEN "journal_article_transagree"
                     ELSE IF record_type = NoType THEN "journal_article"
                     ELSE record_type
           defaulted == ~IsTrue(cfg.offsetting_mode) /\ record_type = NoType
           schema == COLUMN_SCHEMAS[r_type]
       IN /\ current_row' = cur
          /\ record_type' = r_type
          /\ log' = IF defaulted THEN AddLog(log, LogError) ELSE log
          /\ IF \E i \in 1..Len(schema) : schema[i] \notin DOMAIN cur
             THEN Return(KeyError)
             ELSE Return([record_type |-> r_type, values |-> projection(cur, r_type)])
    /\ UNCHANGED <<mode, row, cfg, doi, retries, crossref_result, depth, calls, input_row>>
    /\ UNCHANGED <<isbnVars, callVars>>

Next == Start \/ Resolve \/ Crossref \/ Retry \/ Merge \/ Fallback \/ Pubmed \/ Doaj
        \/ Book \/ Finish

Spec == Init /\ [][Next]_vars

-----------------------------------------------------------------------------
(* Properties of process_row                                               *)

InputHasDoi == has_value(input_row[cfg.column_map["doi"].index])
WellShaped == Len(input_row) = cfg.num_required_columns
Returned == pc = "done"

\* C1: a row is reprocessed at most once: the restart depth never exceeds 1
\* (a pass that starts with a DOI in the row would never restart).
C1_RestartDepthAtMostOne == depth <= 1

\* C2: a row without DOI for which every ISBN reverse lookup returns exactly
\* one DOI is restarted at most once, also when the metadata lookup for the
\* integrated DOI fails.
C2_SingleDoiRestartsOnce ==
    (WellShaped /\ ~InputHasDoi /\ calls.found \subseteq {1}) => depth <= 1

\* C3: for a row whose number of fields differs from num_required_columns,
\* process_row returns the row itself with every field unchanged, logs
\* exactly one error and calls no resolver and no registry.
C3_MisshapenReturnedUnchanged ==
    (Returned /\ ~WellShaped) =>
        /\ result = [row |-> input_row]
        /\ row = input_row
        /\ log = Logged(1, 0, 0)
        /\ calls = [pass |-> NoCalls, found |-> {}]
        /\ depth = 0

C3_Witness ==
    /\ Returned /\ ~WellShaped
    /\ result = [row |-> input_row]
    /\ Len(input_row) > cfg.num_required_columns

\* the row has no value in an ISBN field or in an additional ISBN column
NoIsbnIn(r) ==
    /\ \A i \in 1..Len(IsbnFields) :
          LET index == cfg.column_map[IsbnFields[i]].index
          IN index = 0 \/ ~has_value(r[index])
    /\ \A i \in 1..Len(cfg.additional_isbn_columns) :
          ~has_value(r[cfg.additional_isbn_columns[i]])

C5_RetriesBounded ==
    [][/\ calls'.pass.crossref <= 1 + cfg'.crossref_max_retries
       /\ (calls.pass.crossref > 0 /\ calls'.pass.crossref > calls.pass.crossref) =>
             /\ calls'.pass.crossref = calls.pass.crossref + 1
             /\ ~crossref_result.success
             /\ crossref_result.error_msg = Msg504]_vars

C5_Witness ==
    /\ cfg.crossref_max_retries > 0
    /\ calls.pass.crossref = 1 + cfg.crossref_max_retries
    /\ ~crossref_result.success /\ crossref_result.error_msg = Msg504
    /\ pc = "pubmed"

\* C6: what process_row returns for a well-shaped row is a pair of one of
\* the three schema names and the values of current_row for the fields of
\* that schema, in schema order; the call fails when current_row lacks a
\* field of the schema.
C6_ResultFollowsSchema ==
    (Returned /\ WellShaped) =>
        /\ "row" \notin DOMAIN result
        /\ "values" \in DOMAIN result =>
              /\ result.record_type \in DOMAIN COLUMN_SCHEMAS
              /\ Len(result.values) = Len(COLUMN_SCHEMAS[result.record_type])
              /\ \A i \in 1..Len(result.values) :
                    /\ COLUMN_SCHEMAS[result.record_type][i] \in DOMAIN current_row
                    /\ result.values[i] = current_row[COLUMN_SCHEMAS[result.record_type][i]]
        /\ (/\ record_type \in DOMAIN COLUMN_SCHEMAS
            /\ \E i \in 1..Len(COLUMN_SCHEMAS[record_type]) :
                  COLUMN_SCHEMAS[record_type][i] \notin DOMAIN current_row)
           => "exception" \in DOMAIN result

C6_Witness ==
    /\ Returned /\ WellShaped
    /\ "values" \in DOMAIN result
    /\ result.record_type = "book_title"
    /\ has_value(result.values[8])

-----------------------------------------------------------------------------
(* The identifier validators: ISSN and ISBN check digits                   *)

\* 'NoneType' object has no attribute 'groupdict'
AttributeError == [exception |-> "AttributeError"]
\* what a call that returns hands back
Value(v) == [value |-> v]

\* ISSN_RE = ^(?P<first_part>\d{4})\-(?P<second_part>\d{3})(?P<check_digit>[\dxX])$
ISSN_RE(s) ==
    /\ Len(s) = 9
    /\ AllDigits(SubSeq(s, 1, 4))
    /\ s[5] = Hy
    /\ AllDigits(SubSeq(s, 6, 8))
    /\ s[9] \in DigitChars \cup {"x", "X"}

\* is_wellformed_ISSN
is_wellformed_ISSN(issn_string) == ISSN_RE(issn_string)

\* the loop of is_valid_ISSN with the weights 7 down to 1
RECURSIVE issn_total_from7(_, _, _)
issn_total_from7(digits, i, factor) ==
    IF i > Len(digits) THEN 0
    ELSE DigitVal(digits[i]) * (factor - 1) + issn_total_from7(digits, i + 1, factor - 1)

\* the loop of is_valid_ISSN: total of digit * factor from position i on,
\* the factor falling by one with each digit
RECURSIVE issn_total(_, _, _)
issn_total(digits, i, factor) ==
    IF i > Len(digits) THEN 0
    ELSE DigitVal(digits[i]) * factor + issn_total(digits, i + 1, factor - 1)

\* the check digit of is_valid_ISSN as a number
issn_check_digit(c) == IF c \in {"X", "x"} THEN 10 ELSE DigitVal(c)

\* is_valid_ISSN raises: issn_match is None
is_valid_ISSN_raises(issn_string) == ~ISSN_RE(issn_string)

\* the comparison of is_valid_ISSN
issn_mod_matches(mod, check_digit) ==
    IF mod = 0 /\ check_digit = 0 THEN TRUE ELSE 11 - mod = check_digit

\* is_valid_ISSN, for a string ISSN_RE matches
is_valid_ISSN(issn_string) ==
    issn_mod_matches(
        issn_total(SubSeq(issn_string, 1, 4) \o SubSeq(issn_string, 6, 8), 1, 8) % 11,
        issn_check_digit(issn_string[9]))

\* isbn_has_valid_check_digit raises ValueError
isbn_has_valid_check_digit_raises(isbn) == ~ISBN_RE(isbn)

\* the checksum of isbn_has_valid_check_digit from position i (1-based) on
RECURSIVE isbn_checksum(_, _)
isbn_checksum(isbn, i) ==
    IF i > Len(isbn) THEN 0
    ELSE (IF (i - 1) % 2 = 0 THEN DigitVal(isbn[i]) ELSE 3 * DigitVal(isbn[i]))
         + isbn_checksum(isbn, i + 1)

\* isbn_has_valid_check_digit, for a string ISBN_RE matches
isbn_has_valid_check_digit(isbn) == isbn_checksum(isbn, 1) % 10 = 0

-----------------------------------------------------------------------------
(* The calls of the identifier functions                                   *)

Call(fn, arg) == [fn |-> fn, arg |-> arg]

IssnFirst == {<<"0", "2", "6", "2">>, <<"1", "2", "3", "4">>, <<"0", "0", "0", "0">>, <<"2", "0", "4", "9">>}
IssnSecond == {<<"4", "0", "7">>, <<"3", "6", "3">>, <<"0", "0", "0">>, <<"9", "9", "9">>}
IssnCheck == DigitChars \cup {"x", "X"}
\* strings ISSN_RE matches, and some it does not match
IssnInputs ==
    {a \o <<Hy>> \o b \o <<c>> : a \in IssnFirst, b \in IssnSecond, c \in IssnCheck}
    \cup {<<>>, <<"0", "2", "6", "-", "4", "0", "7", "9">>, <<"0", "2", "6", "2", "4", "0", "7", "9">>, <<"0", "2", "6", "2", "-", "4", "0", "7">>, <<"0", "2", "6", "2", "-", "4", "0", "7", "9", "0">>, <<"0", "2", "6", "2", "-", "4", "0", "7", "Y">>,
          <<"0", "2", "6", "2", " ", "4", "0", "7", "9">>}

\* strings handed to isbn_has_valid_check_digit
CheckDigitInputs == DigitInputs \cup {<<>>, <<"9", "7", "8", "-", "0", "-", "5", "7", "1", "-", "2", "3", "4", "5", "6", "-", "7">>, <<"9", "7", "8", "0", "5", "7", "1", "2", "3", "4", "5", "X", "7">>}

UpperChar(c) ==
    IF \E i \in 1..Len(LowerSeq) : LowerSeq[i] = c
    THEN UpperSeq[CHOOSE i \in 1..Len(LowerSeq) : LowerSeq[i] = c]
    ELSE c
Upper(s) == [i \in 1..Len(s) |-> UpperChar(s[i])]
\* s with its first letter and every third character after it in upper case
Mixed(s) == [i \in 1..Len(s) |-> IF i % 3 = 1 THEN UpperChar(s[i]) ELSE s[i]]

\* DOI bodies of the form 10.<digits>/<suffix>
DoiBodies == {<<"1", "0", ".", "1", "2", "3", "4", "/", "A", "B", "C">>, <<"1", "0", ".", "1", "/", "a">>, <<"1", "0", ".", "1", ".", "2", "/", "x">>, <<"1", "0", ".", "1", "2", "3", "4", "/", "a", "B", "-", "c", ".", "D", "/", "e">>, <<"1", "0", ".", "1", "2", "/", "A", ":", "b", "(", "1", ")">>}
\* the recognised prefixes as a caller writes them
WrittenPrefixes ==
    {h \o d \o <<"d", "o", "i", ".", "o", "r", "g", "/">> : h \in {<<>>, <<"h", "t", "t", "p", ":", "/", "/">>, <<"h", "t", "t", "p", "s", ":", "/", "/">>}, d \in {<<>>, <<"d", "x", ".">>}}
    \cup {<<"d", "o", "i", ":">>}
CasedPrefixes == UNION {{p, Upper(p), Mixed(p)} : p \in WrittenPrefixes}
\* a short DOI, and the Location header its resolver may answer with
ShortDoi == <<"h", "t", "t", "p", "s", ":", "/", "/", "d", "o", "i", ".", "o", "r", "g", "/", "a", "b", "c", "1">>
Locations == {None, <<"h", "t", "t", "p", ":", "/", "/", "d", "x", ".", "d", "o", "i", ".", "o", "r", "g", "/", "1", "0", ".", "1", "2", "3", "4", "/", "A", "B", "C">>, <<"h", "t", "t", "p", ":", "/", "/", "e", "x", "a", "m", "p", "l", "e", ".", "o", "r", "g", "/">>}

\* the arguments of the calls of get_normalised_DOI
DoiInputs ==
    {[doi_string |-> p \o d, location |-> None] : p \in CasedPrefixes \cup {<<>>}, d \in DoiBodies}
    \cup {[doi_string |-> s, location |-> None] :
            s \in {<<>>, <<"a", "b", "c">>, <<"1", "0", ".", "1", "2", "3", "4">>, <<"d", "o", "i", ":">>, <<" ", "1", "0", ".", "1", "/", "A", " ">>, <<"1", "0", ".", "1", "/", "a", " ", "b">>, <<"d", "o", "i", ".", "o", "r", "g", "/", "1", "0", ".", "1", "/">>}}
    \cup {[doi_string |-> ShortDoi, location |-> l] : l \in Locations}

IdentifierFunctionCalls ==
    {Call("is_valid_ISSN", s) : s \in IssnInputs}
    \cup {Call("isbn_has_valid_check_digit", s) : s \in CheckDigitInputs}
    \cup {Call("test_and_normalize_isbn", s) : s \in CheckDigitInputs}
    \cup {Call("get_normalised_DOI", a) : a \in DoiInputs}

\* a caller validates an ISSN
ValidateIssn ==
    /\ mode = "call" /\ call.fn = "is_valid_ISSN" /\ ret = NotCalled
    /\ ret' = IF is_valid_ISSN_raises(call.arg) THEN AttributeError
              ELSE Value(is_valid_ISSN(call.arg))
    /\ UNCHANGED <<mode, call, isbnVars, rowVars>>

\* a caller tests the check digit of an ISBN
TestCheckDigit ==
    /\ mode = "call" /\ call.fn = "isbn_has_valid_check_digit" /\ ret = NotCalled
    /\ ret' = IF isbn_has_valid_check_digit_raises(call.arg) THEN ValueError
              ELSE Value(isbn_has_valid_check_digit(call.arg))
    /\ UNCHANGED <<mode, call, isbnVars, rowVars>>

\* a caller normalises an ISBN
NormalizeIsbn ==
    /\ mode = "call" /\ call.fn = "test_and_normalize_isbn" /\ ret = NotCalled
    /\ \E r \in {test_and_normalize_isbn(call.arg)} :
          ret' = IF r = ValueError THEN ValueError ELSE Value(r)
    /\ UNCHANGED <<mode, call, isbnVars, rowVars>>

\* a caller normalises a DOI
NormaliseDoi ==
    /\ mode = "call" /\ call.fn = "get_normalised_DOI" /\ ret = NotCalled
    /\ ret' = Value(get_normalised_DOI(call.arg.doi_string, call.arg.location))
    /\ UNCHANGED <<mode, call, isbnVars, rowVars>>

-----------------------------------------------------------------------------
(* The DOAB registry: DOABAnalysis.__init__ and lookup                     *)

Tab == "<tab>"

\* isbn_string with "/", ";" and tabs replaced by a blank
doab_spaced(isbn_string) ==
    [i \in 1..Len(isbn_string) |->
        IF isbn_string[i] \in {"/", ";", Tab} THEN Sp ELSE isbn_string[i]]

\* while "  " in isbn_string: isbn_string = isbn_string.replace("  ", " ")
RECURSIVE doab_collapse(_)
doab_collapse(s) ==
    IF Len(s) < 2 THEN s
    ELSE IF s[1] = Sp /\ s[2] = Sp THEN doab_collapse(Tail(s))
    ELSE <<s[1]>> \o doab_collapse(Tail(s))

\* list(set(isbns)): the different values of the list (the final map does not
\* depend on the order in which they are visited)
RECURSIVE doab_unique(_)
doab_unique(isbns) ==
    IF isbns = <<>> THEN <<>>
    ELSE LET rest == doab_unique(SubSeq(isbns, 1, Len(isbns) - 1)) IN
         IF \E i \in 1..Len(rest) : rest[i] = isbns[Len(isbns)] THEN rest
         ELSE Append(rest, isbns[Len(isbns)])

\* the state of the constructor: the map and the list duplicate_isbns
DoabState(isbn_map, duplicate_isbns) ==
    [isbn_map |-> isbn_map, duplicate_isbns |-> duplicate_isbns]

InList(x, list) == \E i \in 1..Len(list) : list[i] = x

\* the body of the loop over the ISBNs of a line, given the result of
\* test_and_normalize_isbn
doab_add_normalised(st, res, line) ==
    IF ~res.valid THEN st
    ELSE IF res.normalised \notin DOMAIN st.isbn_map
    THEN DoabState([k \in DOMAIN st.isbn_map \cup {res.normalised} |->
                        IF k = res.normalised THEN line ELSE st.isbn_map[k]],
                   st.duplicate_isbns)
    ELSE IF ~InList(res.normalised, st.duplicate_isbns)
    THEN DoabState(st.isbn_map, Append(st.duplicate_isbns, res.normalised))
    ELSE st

\* the loop over the ISBNs of a line, from the i-th on
RECURSIVE doab_add_isbns(_, _, _, _)
doab_add_isbns(st, isbns, i, line) ==
    IF i > Len(isbns) THEN st
    ELSE doab_add_isbns(doab_add_normalised(st, test_and_normalize_isbn(isbns[i]), line),
                        isbns, i + 1, line)

\* the ISBNs of a line whose stripped ISBN field is not empty
doab_split(stripped) == doab_unique(SplitOn(doab_collapse(stripped), Sp))

\* the body of the loop over the lines, given the stripped ISBN field
doab_read_stripped(st, line, stripped) ==
    IF Len(stripped) = 0 THEN st
    ELSE doab_add_isbns(st, doab_split(stripped), 1, line)

\* the body of the loop over the lines of the file
doab_read_line(st, line) ==
    IF line.Type # "book" THEN st
    ELSE doab_read_stripped(st, line, Strip(doab_spaced(line.ISBN)))

\* the loop over the lines of the file, from the i-th on
RECURSIVE doab_read(_, _, _)
doab_read(st, lines, i) ==
    IF i > Len(lines) THEN st
    ELSE doab_read(doab_read_line(st, lines[i]), lines, i + 1)

\* a constructor that keeps the first line of a duplicate
doab_drop_none(isbn_map, duplicate_isbns) == isbn_map

\* for duplicate in duplicate_isbns: del(self.isbn_map[duplicate])
doab_drop(isbn_map, duplicate_isbns) ==
    [k \in {n \in DOMAIN isbn_map : ~InList(n, duplicate_isbns)} |-> isbn_map[k]]

doab_dropped(st) == doab_drop(st.isbn_map, st.duplicate_isbns)

\* DOABAnalysis.__init__: the map isbn_map built from the lines of the file
DOABAnalysis_init(lines) == doab_dropped(doab_read(DoabState(<<>>, <<>>), lines, 1))

\* DOABAnalysis.lookup on a given map, given the result of
\* test_and_normalize_isbn
doab_lookup_normalised(isbn_map, res) ==
    IF res.valid /\ res.normalised \in DOMAIN isbn_map
    THEN [book_title |-> isbn_map[res.normalised].Title,
          publisher |-> isbn_map[res.normalised].Publisher,
          license_ref |-> isbn_map[res.normalised].License]
    ELSE None

\* DOABAnalysis.lookup on a given map
doab_lookup_in(isbn_map, isbn) == doab_lookup_normalised(isbn_map, test_and_normalize_isbn(isbn))

\* the largest number of lines of a registry file
MaxLines == 3

DoabLine(type, isbn, n) ==
    [Type |-> type, ISBN |-> isbn, Title |-> <<"Title", n>>, Publisher |-> <<"Publisher", n>>,
     License |-> <<"License", n>>]
\* the lines a registry file is made of
DoabLines == {
    DoabLine("book", <<"9", "7", "8", "0", "5", "7", "1", "2", "3", "4", "5", "6", "7">>, 1),
    DoabLine("book", <<"9", "7", "8", "-", "0", "-", "5", "7", "1", "-", "2", "3", "4", "5", "6", "-", "7">>, 2),
    DoabLine("book", <<"9", "7", "8", "3", "5", "7", "1", "2", "3", "4", "5", "6", "7", " ", "/", " ", "9", "7", "8", "0", "5", "7", "1", "2", "3", "4", "5", "6", "7">>, 3),
    DoabLine("book", <<"9", "7", "8", "3", "5", "7", "1", "2", "3", "4", "5", "6", "7", ";", "9", "7", "8", "3", "5", "7", "1", "2", "3", "4", "5", "6", "7">>, 4),
    DoabLine("book", <<"9", "7", "8", "-", "3", "-", "5", "7", "1", "-", "2", "3", "4", "5", "6", "-", "7", " ", "9", "7", "8", "3", "5", "7", "1", "2", "3", "4", "5", "6", "7">>, 5),
    DoabLine("chapter", <<"9", "7", "8", "0", "5", "7", "1", "2", "3", "4", "5", "6", "7">>, 6),
    DoabLine("book", <<" ", "1", "2", "3", ";">>, 7) }
RECURSIVE SeqsUpTo(_, _)
SeqsUpTo(S, n) ==
    IF n = 0 THEN {<<>>}
    ELSE SeqsUpTo(S, n - 1) \cup {Append(q, x) : q \in SeqsUpTo(S, n - 1), x \in S}
DoabFiles == SeqsUpTo(DoabLines, MaxLines)

DoabCalls ==
    {Call("DOABAnalysis", [lines |-> f, isbn |-> i]) :
        f \in DoabFiles, i \in {<<"9", "7", "8", "0", "5", "7", "1", "2", "3", "4", "5", "6", "7">>, <<"9", "7", "8", "-", "3", "-", "5", "7", "1", "-", "2", "3", "4", "5", "6", "-", "7">>}}

\* a DOABAnalysis is constructed from the registry file
ConstructDoab ==
    /\ mode = "call" /\ call.fn = "DOABAnalysis" /\ ret = NotCalled
    /\ ret' = [isbn_map |-> DOABAnalysis_init(call.arg.lines)]
    /\ UNCHANGED <<mode, call, isbnVars, rowVars>>

\* an ISBN is looked up in the constructed registry
LookupDoab ==
    /\ mode = "call" /\ call.fn = "DOABAnalysis"
    /\ DOMAIN ret = {"isbn_map"}
    /\ ret' = [isbn_map |-> ret.isbn_map, value |-> doab_lookup_in(ret.isbn_map, call.arg.isbn)]
    /\ UNCHANGED <<mode, call, isbnVars, rowVars>>

-----------------------------------------------------------------------------
(* The CSV writer: OpenAPCUnicodeWriter                                    *)

Quote == "\""
Comma == ","
IndexError == [exception |-> "IndexError"]

\* value.replace('"', '""')
RECURSIVE double_quotes(_)
double_quotes(value) ==
    IF value = <<>> THEN <<>>
    ELSE (IF Head(value) = Quote THEN <<Quote, Quote>> ELSE <<Head(value)>>)
         \o double_quotes(Tail(value))

\* '"' + value.replace('"', '""') + '"'
quoted(value) == <<Quote>> \o double_quotes(value) \o <<Quote>>

\* value in ["TRUE", "FALSE", "NA"]
is_keyword(value) == value \in {TRUE_STR, FALSE_STR, NA}

\* "," in value
has_comma(value) == \E i \in 1..Len(value) : value[i] = Comma

\* the attributes of a writer; quotemask <<>> stands for None and for the
\* empty list alike (the code only tests `not self.quotemask`)
Writer(quotemask, openapc_quote_rules, has_header, minimal_quotes) ==
    [quotemask |-> quotemask, openapc_quote_rules |-> openapc_quote_rules,
     has_header |-> has_header, minimal_quotes |-> minimal_quotes]

\* the mask test of _prepare_row for the column index (0-based):
\* self.quotemask[index] or "," in row[index] and self.minimal_quotes
mask_quotes(w, value, index) ==
    /\ index < Len(w.quotemask)
    /\ (w.quotemask[index + 1] \/ (has_comma(value) /\ w.minimal_quotes))

\* the body of the loop of _prepare_row: the value written for row[index]
prepare_value(w, value, index, use_quotemask) ==
    IF w.openapc_quote_rules /\ is_keyword(value) THEN value
    ELSE IF ~use_quotemask \/ w.quotemask = <<>> THEN quoted(value)
    ELSE IF mask_quotes(w, value, index) THEN quoted(value)
    ELSE value

\* _prepare_row
prepare_row(w, r, use_quotemask) ==
    [i \in 1..Len(r) |-> prepare_value(w, r[i], i - 1, use_quotemask)]

\* ",".join(row) + "\n"
RECURSIVE join_comma(_)
join_comma(r) ==
    IF r = <<>> THEN <<>>
    ELSE IF Len(r) = 1 THEN r[1]
    ELSE r[1] \o <<Comma>> \o join_comma(Tail(r))
write_row(r) == join_comma(r) \o <<"\n">>

\* write_rows raises: rows.pop(0) on an empty list
write_rows_raises(w, rows) == w.has_header /\ rows = <<>>

\* the rows write_rows hands to _write_row, prepared
written_rows(w, rows) ==
    [k \in 1..Len(rows) |-> prepare_row(w, rows[k], ~(w.has_header /\ k = 1))]

\* write_rows: the prepared rows and the lines written to the file
write_rows(w, rows) ==
    [rows |-> written_rows(w, rows),
     outfile |-> [k \in 1..Len(rows) |-> write_row(written_rows(w, rows)[k])]]

\* the largest number of rows handed to write_rows
MaxRows == 2

QuoteMasks == {<<>>, <<FALSE>>, <<TRUE, FALSE>>, <<FALSE, FALSE, FALSE>>}
Writers ==
    {Writer(q, o, h, m) : q \in QuoteMasks, o \in BOOLEAN, h \in BOOLEAN, m \in BOOLEAN}
WriterRows == {
    <<<<"a">>, <<"c", ",", "d">>, NA>>,
    <<NA, TRUE_STR, <<"x">>>>,
    <<<<"c", ",", "d">>, <<"a", Quote, "b">>, <<"e", ",", "f">>>>,
    <<<<"a", ",", "b">>, <<"c">>>>,
    <<FALSE_STR>> }
WriterCalls ==
    {Call("write_rows", [writer |-> w, rows |-> r]) :
        w \in Writers, r \in SeqsUpTo(WriterRows, MaxRows)}

\* a caller writes rows
WriteRows ==
    /\ mode = "call" /\ call.fn = "write_rows" /\ ret = NotCalled
    /\ ret' = IF write_rows_raises(call.arg.writer, call.arg.rows) THEN IndexError
              ELSE write_rows(call.arg.writer, call.arg.rows)
    /\ UNCHANGED <<mode, call, isbnVars, rowVars>>

-----------------------------------------------------------------------------
(* The calls of _process_euro_value                                        *)

EuroInputs == {
    <<"1", "2", "3", "4", ".", "5", "6", "7">>, <<"1", "2", "3", "4", ".", "5", "7">>, <<"2", ".", "6", "7", "5">>, <<"1", ".", "9", "9", "9">>, <<"0", ".", "1", "2", "5">>, <<"1", "2", ".", "3", "4", "5">>, <<"1", "0", "0", "0", ".", "5">>,
    <<"0", ".", "0", "0", "0", "0", "1">>, <<"0", ".", "0", "0", "0", "0", "1", "2", "3", "4", "5">>, <<"0", ".", "0", "0", "0", "4", "5", "6", "7">>, <<"0", ".", "0", "0", "1">>, <<"1", ".", "2", "3", "0", "0">>, <<"2", ".", "0", "0", "0">>, <<"1", "0", "0">>, <<"0">>,
    <<"0", "0", "7", ".", "1", "2", "5", "0">>, <<"-", "1", ".", "2", "3", "4">>, <<"a", "b", "c">>, <<"1", ".", "2", ".", "3">>, <<>>, NA,
    <<"n", "a", "n">>, <<"-", "i", "n", "f">>, <<"0", ".", "0", "0">>, <<"1", ",", "5">>, <<"0", ".", "0", "0", "1">> }
EuroCalls ==
    {Call("_process_euro_value", [euro_value |-> v, round_monetary |-> r, offsetting_mode |-> o]) :
        v \in EuroInputs, r \in BOOLEAN, o \in {None, AgreementTag}}

\* a caller normalises a monetary value
ProcessEuro ==
    /\ mode = "call" /\ call.fn = "_process_euro_value" /\ ret = NotCalled
    /\ \E tie_up \in BOOLEAN :
          ret' = process_euro_value(call.arg.euro_value, call.arg.round_monetary,
                                    call.arg.offsetting_mode, tie_up)
    /\ UNCHANGED <<mode, call, isbnVars, rowVars>>

-----------------------------------------------------------------------------
(* Calls of _process_isbn                                                  *)

\* values of the ISBN fields of a row: split rightly and wrongly, too short,
\* too long, split by blanks, no ISBN at all
IsbnFieldInputs ==
    {<<"9", "7", "8", "-", "0", "-", "5", "7", "1", "-", "2", "3", "4", "5", "6", "-", "7">>, <<"9", "7", "8", "-", "0", "5", "-", "7", "1", "-", "2", "3", "4", "5", "6", "-", "7">>, <<"9", "7", "8", "-", "0", "5", "7", "1", "-", "2", "3", "4", "5", "-", "6", "7", "-", "1">>, <<"9", "7", "8", "-", "0", "-", "5", "7", "1", "-", "2", "3", "4", "5", "-", "7">>,
     <<"9", "7", "8", "-", "1", "2", "3", "4", "5", "-", "1", "2", "3", "4", "5", "6", "7", "-", "1", "2", "3", "4", "5", "6", "-", "1">>, <<"9", "7", "8", " ", "0", " ", "5", "7", "1", " ", "2", "3", "4", "5", "6", " ", "7">>, <<"9", "7", "8", "0", "5", "7", "1", "2", "3", "4", "5", "6", "7">>, <<"9", "7", "8", "-", "0", "5", "7", "1", "2", "3", "4", "5", "6", "-", "7">>,
     <<"9", "7", "8", "0", "5", "7", "1", "2", "3", "4", "5">>, <<"a", "b", "c">>, <<"9", "7", "8", "-", "0", "-", "5", "7", "1", "-", "2", "3", "4", "5", "6", "-", "X">>, <<"9", "7", "8", "-", "6", "-", "6", "5", "7", "-", "1", "2", "3", "4", "5", "-", "6">>, <<"9", "7", "8", "6", "6", "5", "7", "1", "2", "3", "4", "5", "6">>, NA, <<>>}

IsbnFieldCalls ==
    {Call("test_and_normalize_isbn", s) : s \in IsbnFieldInputs}
    \cup {Call("_process_isbn", s) : s \in IsbnFieldInputs}

\* process_row cleans an ISBN field
ProcessIsbn ==
    /\ mode = "call" /\ call.fn = "_process_isbn" /\ ret = NotCalled
    /\ ret' = Value(process_isbn(call.arg))
    /\ UNCHANGED <<mode, call, isbnVars, rowVars>>

AllCalls ==
    IdentifierFunctionCalls \cup DoabCalls \cup WriterCalls \cup EuroCalls
    \cup IsbnFieldCalls

InitCalls ==
    /\ mode = "call"
    /\ call \in AllCalls
    /\ ret = NotCalled
    /\ isbnIdle /\ rowIdle

NextCalls ==
    \/ ValidateIssn
    \/ TestCheckDigit
    \/ NormalizeIsbn
    \/ NormaliseDoi
    \/ ConstructDoab
    \/ LookupDoab
    \/ WriteRows
    \/ ProcessEuro
    \/ ProcessIsbn

SpecCalls == InitCalls /\ [][NextCalls]_vars

-----------------------------------------------------------------------------
(* Properties of the identifier functions                                  *)

Called(fn) == mode = "call" /\ call.fn = fn /\ ret # NotCalled
Raised == "exception" \in DOMAIN ret

\* C11: no identifier normaliser or validator raises: is_valid_ISSN,
\* isbn_has_valid_check_digit, test_and_normalize_isbn and get_normalised_DOI
\* return a value for every input string.
C11_NoNormalizerRaises ==
    (mode = "call" /\ ret # NotCalled
        /\ call.fn \in {"is_valid_ISSN", "isbn_has_valid_check_digit",
                        "test_and_normalize_isbn", "get_normalised_DOI"})
    => ~Raised

\* the value of the character of an ISSN at position i (X counts 10)
IssnValue(c) == IF c \in {"X", "x"} THEN 10 ELSE DigitVal(c)
\* the weighted sum of a well-formed ISSN: weights 8..2 on the seven digits,
\* plus the check value
WeightedSum(s) ==
    8 * IssnValue(s[1]) + 7 * IssnValue(s[2]) + 6 * IssnValue(s[3]) + 5 * IssnValue(s[4])
    + 4 * IssnValue(s[6]) + 3 * IssnValue(s[7]) + 2 * IssnValue(s[8]) + IssnValue(s[9])
\* the well-formed strings that differ from s in the value at exactly one of
\* the eight digit positions
Alterations(s) ==
    UNION {{[s EXCEPT ![i] = c] : c \in DigitChars \ {s[i]}} : i \in {1, 2, 3, 4, 6, 7, 8}}
    \cup {[s EXCEPT ![9] = c] : c \in {d \in IssnCheck : IssnValue(d) # IssnValue(s[9])}}

\* C12: is_valid_ISSN accepts a well-formed ISSN exactly if its weighted sum
\* is divisible by 11, and it rejects every single-position alteration of an
\* ISSN it accepts.
C12_IssnChecksum ==
    (Called("is_valid_ISSN") /\ ISSN_RE(call.arg))
    => /\ ret = Value(WeightedSum(call.arg) % 11 = 0)
       /\ ret = Value(TRUE) =>
            \A t \in Alterations(call.arg) :
                ~is_valid_ISSN_raises(t) /\ ~is_valid_ISSN(t)

\* an accepted ISSN with the check digit X has been validated
C12_Witness ==
    Called("is_valid_ISSN") /\ ret = Value(TRUE) /\ call.arg[9] = "X"
    /\ Cardinality(Alterations(call.arg)) = 73

\* C13: for a DOI body d of the form 10.<digits>/<suffix>, written alone or
\* after a recognised prefix in any letter case, get_normalised_DOI returns
\* d in lower case, and normalising that result again returns it unchanged.
C13_DoiNormalForm ==
    \A d \in DoiBodies : \A p \in CasedPrefixes \cup {<<>>} :
        (Called("get_normalised_DOI") /\ call.arg.doi_string = p \o d)
        => /\ ret = Value(Lower(d))
           /\ get_normalised_DOI(ret.value, None) = ret.value

\* a DOI with upper-case letters behind an upper-case prefix has been normalised
C13_Witness ==
    /\ Called("get_normalised_DOI")
    /\ call.arg.doi_string = <<"H", "T", "T", "P", "S", ":", "/", "/", "D", "X", ".", "D", "O", "I", ".", "O", "R", "G", "/", "1", "0", ".", "1", "2", "3", "4", "/", "a", "B", "-", "c", ".", "D", "/", "e">>
    /\ ret = Value(<<"1", "0", ".", "1", "2", "3", "4", "/", "a", "b", "-", "c", ".", "d", "/", "e">>)

-----------------------------------------------------------------------------
(* Properties of the DOAB registry                                         *)

\* the normalised ISBN n occurs in the book line
OccursIn(line, n) ==
    /\ line.Type = "book"
    /\ \E t \in {<<"9", "7", "8", "0", "5", "7", "1", "2", "3", "4", "5", "6", "7">>, <<"9", "7", "8", "-", "0", "-", "5", "7", "1", "-", "2", "3", "4", "5", "6", "-", "7">>, <<"9", "7", "8", "3", "5", "7", "1", "2", "3", "4", "5", "6", "7">>,
                 <<"9", "7", "8", "-", "3", "-", "5", "7", "1", "-", "2", "3", "4", "5", "6", "-", "7">>} :
          /\ \E i \in 1..Len(line.ISBN) :
                i + Len(t) - 1 <= Len(line.ISBN) /\ SubSeq(line.ISBN, i, i + Len(t) - 1) = t
          /\ RemoveChar(t, Hy) = RemoveChar(n, Hy)
\* the number of lines of the file in which n occurs
RowsWith(lines, n) == Cardinality({i \in 1..Len(lines) : OccursIn(lines[i], n)})
NormalisedIsbns == {<<"9", "7", "8", "-", "0", "-", "5", "7", "1", "-", "2", "3", "4", "5", "6", "-", "7">>, <<"9", "7", "8", "-", "3", "-", "5", "7", "1", "-", "2", "3", "4", "5", "6", "-", "7">>}

\* C14: after construction a normalised ISBN that occurs in two or more book
\* rows of the registry file is not in the map, and a lookup of it returns
\* None, however many rows repeat it.
C14_DuplicatesDropped ==
    (mode = "call" /\ call.fn = "DOABAnalysis" /\ ret # NotCalled)
    => \A n \in NormalisedIsbns :
          RowsWith(call.arg.lines, n) >= 2
          => /\ n \notin DOMAIN ret.isbn_map
             /\ ("value" \in DOMAIN ret /\ RemoveChar(call.arg.isbn, Hy) = RemoveChar(n, Hy))
                => ret.value = None

\* an ISBN that three book rows repeat has been looked up, while the other
\* ISBN of the file is in the map
C14_Witness ==
    /\ mode = "call" /\ call.fn = "DOABAnalysis" /\ "value" \in DOMAIN ret
    /\ RowsWith(call.arg.lines, <<"9", "7", "8", "-", "0", "-", "5", "7", "1", "-", "2", "3", "4", "5", "6", "-", "7">>) = 3
    /\ call.arg.isbn = <<"9", "7", "8", "0", "5", "7", "1", "2", "3", "4", "5", "6", "7">>
    /\ ret.value = None
    /\ <<"9", "7", "8", "-", "3", "-", "5", "7", "1", "-", "2", "3", "4", "5", "6", "-", "7">> \in DOMAIN ret.isbn_map

-----------------------------------------------------------------------------
(* Properties of the CSV writer                                            *)

\* write_rows has written, with the default rules of the writer (keywords
\* are never quoted, values with a comma are quoted)
Written ==
    /\ mode = "call" /\ call.fn = "write_rows" /\ "rows" \in DOMAIN ret
    /\ call.arg.writer.openapc_quote_rules /\ call.arg.writer.minimal_quotes
\* the indexes of the data rows the caller passed
DataRows ==
    {k \in 1..Len(call.arg.rows) : ~(call.arg.writer.has_header /\ k = 1)}
IsQuoted(written, value) ==
    /\ Len(written) >= 2 /\ written[1] = Quote /\ written[Len(written)] = Quote
    /\ RemoveChar(SubSeq(written, 2, Len(written) - 1), Quote) = RemoveChar(value, Quote)

\* C15: with a quote mask, every value of a data row that contains a comma
\* and is no keyword is written quoted, whatever the mask says for its column
\* and whatever the index of its column is; a keyword is written unquoted.
C15_CommaValuesQuoted ==
    (Written /\ call.arg.writer.quotemask # <<>>)
    => \A k \in DataRows : \A i \in 1..Len(call.arg.rows[k]) :
          /\ (has_comma(call.arg.rows[k][i]) /\ ~is_keyword(call.arg.rows[k][i]))
                => IsQuoted(ret.rows[k][i], call.arg.rows[k][i])
          /\ is_keyword(call.arg.rows[k][i]) => ret.rows[k][i] = call.arg.rows[k][i]

\* the first conjunct of C16: the cells of the header row
HeaderQuoted ==
    (Written /\ call.arg.writer.has_header)
    => \A i \in 1..Len(call.arg.rows[1]) : IsQuoted(ret.rows[1][i], call.arg.rows[1][i])
\* the second conjunct of C16: the data rows of a writer without a mask
UnmaskedQuoted ==
    (Written /\ call.arg.writer.quotemask = <<>>)
    => \A k \in DataRows : \A i \in 1..Len(call.arg.rows[k]) :
          ~is_keyword(call.arg.rows[k][i])
          => IsQuoted(ret.rows[k][i], call.arg.rows[k][i])

\* C16: with a header every cell of the first row is written quoted,
\* whatever the quote mask and the text of the cell are; without a quote mask
\* every cell of a data row that is no keyword is written quoted.
C16_HeaderAndUnmaskedQuoted == HeaderQuoted /\ UnmaskedQuoted

-----------------------------------------------------------------------------
(* Properties of _process_euro_value                                       *)

RECURSIVE Pow10(_)
Pow10(k) == IF k = 0 THEN 1 ELSE 10 * Pow10(k - 1)
\* the decimal number f times 10^k, for k not below the number of its
\* fractional digits
Scaled(f, k) == IntOf(IntDigits(f) \o f.fp) * Pow10(k - Len(f.fp))
\* the decimal string t has at most two fractional digits and differs from
\* the number f by at most half a hundredth
IsRoundingOf(t, f) ==
    /\ ParseFloat(t).ok /\ ~ParseFloat(t).neg
    /\ Len(ParseFloat(t).fp) <= 2
    /\ LET k == Len(f.fp)
           d == Scaled(ParseFloat(t), k) - Scaled(f, k)
       IN 2 * d <= Pow10(k - 2) /\ 0 - 2 * d <= Pow10(k - 2)
\* the argument of the call is a non-negative decimal number
EuroCalled ==
    /\ Called("_process_euro_value")
    /\ has_value(call.arg.euro_value)
    /\ ParseFloat(call.arg.euro_value).ok /\ ~ParseFloat(call.arg.euro_value).neg
EuroArg == ParseFloat(call.arg.euro_value)

\* C17: a non-negative value with more than two fractional digits is, with
\* rounding enabled, returned rounded to two fractional digits with one
\* normalisation notice logged, and with rounding disabled returned unchanged
\* with one error logged; an integral value is returned without a fractional
\* part.
C17_EuroRounding ==
    /\ (EuroCalled /\ Len(EuroArg.fp) > 2 /\ call.arg.round_monetary)
          => /\ IsRoundingOf(ret.v, EuroArg)
             /\ ret.log.warning >= 1 /\ ret.log.info = 0
    /\ (EuroCalled /\ Len(EuroArg.fp) > 2 /\ ~call.arg.round_monetary)
          => /\ ParseFloat(ret.v) = EuroArg
             /\ ret.log = LogError
    /\ (EuroCalled /\ EuroArg.fp = <<>>)
          => ret.v = IntDigits(EuroArg)

\* the same for the values from 0.0001 on
EuroRoundingFrom00001 == EuroCalled => (UsesExponent(EuroArg) \/ C17_EuroRounding)

-----------------------------------------------------------------------------
(* Properties of process_row: agreement override and ISBN lookup           *)

\* the value the result has for a field of its schema
ResultField(field) ==
    result.values[CHOOSE i \in 1..Len(COLUMN_SCHEMAS[result.record_type]) :
                      COLUMN_SCHEMAS[result.record_type][i] = field]

\* C18: with an agreement tag supplied (offsetting_mode not None) a correctly
\* shaped row is returned as journal_article_transagree, whatever the earlier
\* steps decided, with the tag in its agreement field; without a tag the
\* result is never journal_article_transagree.
C18_AgreementOverride ==
    (Returned /\ WellShaped /\ "values" \in DOMAIN result)
    => /\ cfg.offsetting_mode # None
            => /\ result.record_type = "journal_article_transagree"
               /\ ResultField("agreement") = cfg.offsetting_mode
       /\ cfg.offsetting_mode = None
            => result.record_type # "journal_article_transagree"

\* the same for the tags that are not the empty string
AgreementOverrideNonEmpty == cfg.offsetting_mode = <<>> \/ C18_AgreementOverride


\* the ISBN candidates of the row in the pass that has no DOI
Candidates == lookup_collected_isbns(current_row, additional_isbns_of(row, cfg))

\* a step of the reverse lookup for a row without DOI that has a candidate
LookupStep ==
    /\ mode = "row" /\ pc = "resolve" /\ pc' # "resolve"
    /\ Candidates # <<>>

\* the answers with several DOIs
SeveralDois == {a \in IsbnAnswers : Len(a.dois) > 1}

\* what the claim C19 says of a lookup step
LookupOutcome ==
    /\ depth' = depth => (pc' = "doaj" /\ record_type' = "book_title")
    /\ (\E n \in calls'.found : n > 1)
          => /\ depth' = depth + 1
             /\ \E a \in SeveralDois :
                   /\ row'[cfg.column_map["doi"].index] = a.dois[1]
                   /\ isbn_lookup(current_row, additional_isbns_of(row, cfg), a).log.warning
                         = lookup_invalid_isbns(Candidates) + 1

\* C19: for a correctly shaped row without DOI that has a non-empty ISBN
\* candidate, a lookup that yields no DOI (failure, zero results, or no
\* candidate passing normalisation) lets the pass continue without restart,
\* the row being classified as book; when several DOIs are returned a warning
\* is logged and the first one is used.
C19_LookupWithoutDoi == [][LookupStep => LookupOutcome]_vars

\* the same for the rows of which a candidate passes normalisation
LookupWithValidCandidate ==
    [][(LookupStep /\ lookup_query_isbns(Candidates) # <<>>) => LookupOutcome]_vars

-----------------------------------------------------------------------------
(* Properties of the range walk of split_isbn (checked under SpecIsbn)     *)

\* the EAN element split_isbn finds for the digits of the input (0: none)
EanIndex ==
    FirstIndex(Len(ean_elements), LAMBDA i : StartsWith(InDigits, ean_elements[i].Prefix))
\* the digits that follow the EAN prefix, and the group length found for them
GroupFragment == Drop(InDigits, Len(ean_elements[EanIndex].Prefix))
GroupLength == get_range_length_from_rules(GroupFragment, ean_elements[EanIndex].Rules)
\* the prefix with the registration group, and the digits that follow them
GroupPrefix == ean_elements[EanIndex].Prefix \o <<Hy>> \o Take(GroupFragment, GroupLength)
RegistrantFragment == Drop(GroupFragment, GroupLength)
RegistrantRules == registration_groups[group_index(GroupPrefix)].Rules

\* the input was normalised and split_isbn walked both levels for its digits
Walked ==
    /\ Normalized /\ ISBN_RE(InDigits) /\ EanIndex # 0
    /\ GroupLength \in 1..5 /\ group_index(GroupPrefix) # 0

\* the digits of the fragment the lookup key is made of
KeyDigits(isbn_fragment) == Take(isbn_fragment, 7)

\* the split with the registrant of the length the rules give for the key
SplitByKey(length) ==
    IF length = 0 THEN ~InSplit.success
    ELSE InSplit = split_joined(GroupPrefix, Take(RegistrantFragment, length),
                                Drop(RegistrantFragment, length))

\* what the claim C20 says of the two lookup keys
SevenDigitKeys ==
    /\ Len(KeyDigits(GroupFragment)) = 7
    /\ GroupLength = range_length_for(ean_elements[EanIndex].Rules,
                                      IntOf(KeyDigits(GroupFragment)))
    /\ Len(KeyDigits(RegistrantFragment)) = 7
    /\ SplitByKey(range_length_for(RegistrantRules, IntOf(KeyDigits(RegistrantFragment))))

\* C20: at both levels of the range walk in split_isbn the lookup key
\* compared with the 7-digit range bounds consists of exactly 7 digits of the
\* ISBN following the segments already consumed, and the segment length
\* chosen is that of the first rule whose range encloses the key, for every
\* registration-group length from 1 to 5.
C20_SevenDigitKey == Walked => SevenDigitKeys

\* the same for the registration groups of at most three digits
SevenDigitKeyShortGroup == (Walked /\ GroupLength <= 3) => SevenDigitKeys

-----------------------------------------------------------------------------
(* Properties of the ISBN fields of a row (checked under SpecCalls)        *)

\* what test_and_normalize_isbn returns for the ISBN field _process_isbn cleans
FieldVerdict == test_and_normalize_isbn(RemoveChar(call.arg, Sp))

\* the dict of a valid input, or that of an invalid one with an error of 0..3
VerdictShape(r) ==
    \/ /\ r.valid
       /\ DOMAIN r = {"valid", "input_value", "normalised"}
    \/ /\ ~r.valid
       /\ DOMAIN r = {"valid", "input_value", "error_type"}
       /\ r.error_type \in 0..3

ModeLevel == IF call.arg.offsetting_mode = None THEN LogError ELSE LogWarning
\* the value is a decimal number
Numeric(v) == ParseFloat(v).ok

\* an empty and a zero value are logged at the level of the mode
EmptyAndZeroByMode ==
    Called("_process_euro_value")
    => /\ ~has_value(call.arg.euro_value) => ret = Out(NA, ModeLevel)
       /\ (has_value(call.arg.euro_value) /\ Numeric(call.arg.euro_value)
             /\ FloatIsZero(ParseFloat(call.arg.euro_value)))
          => ret.log = ModeLevel

\* C22: in _process_euro_value an empty, a non-numeric and a zero value are
\* each logged as an error in normal mode and as a warning (not an error) in
\* offsetting mode; the empty and the non-numeric value are returned as NA.
C22_EmptyNonNumericZero ==
    /\ EmptyAndZeroByMode
    /\ (Called("_process_euro_value") /\ has_value(call.arg.euro_value)
          /\ ~Numeric(call.arg.euro_value))
       => ret = Out(NA, ModeLevel)

\* a value float() rejects is returned as NA with one error in both modes
RejectedValueIsError ==
    (Called("_process_euro_value") /\ has_value(call.arg.euro_value)
       /\ ~Numeric(call.arg.euro_value) /\ ~IsSpecialFloat(call.arg.euro_value))
    => ret = Out(NA, LogError)

-----------------------------------------------------------------------------
(* Properties of the resolver calls of process_row (checked under Spec)    *)

\* the DOI field of the row of the current pass has a value
PassHasDoi == has_value(row[cfg.column_map["doi"].index])

\* C23: in every pass the metadata-by-DOI resolver and the PubMed resolver are
\* called only if the DOI field of the row has a value at the start of the pass
\* and the lookup is enabled; PubMed is called at most once per pass, only
\* after all Crossref calls of that pass, and never in a pass that ends with
\* a restart.
C23_ResolverCalls ==
    [][/\ calls'.pass.crossref > 0 => (PassHasDoi' /\ ~cfg'.no_crossref_lookup)
       /\ calls'.pass.pubmed > 0 => (PassHasDoi' /\ ~cfg'.no_pubmed_lookup)
       /\ calls'.pass.pubmed <= 1
       /\ (calls.pass.pubmed > 0 /\ depth' = depth)
             => calls'.pass.crossref = calls.pass.crossref
       /\ depth' # depth => calls.pass.pubmed = 0]_vars

C23_Witness ==
    /\ mode = "row" /\ depth = 1 /\ pc = "done"
    /\ calls.pass.crossref > 1 /\ calls.pass.pubmed = 1

-----------------------------------------------------------------------------
(* Properties of the merges of process_row (checked under Spec)            *)

\* the policy of the column stores the offered value into the field
Stored(field, offered) ==
    /\ current_row'[field] = check_overwrite(cfg.column_map[field].overwrite,
                                             current_row[field], offered)
    /\ (cfg.column_map[field].overwrite = KeepExisting /\ has_value(current_row[field]))
          => current_row'[field] = current_row[field]

\* the value offered for a field of the Crossref answer
OfferedByCrossref(field) ==
    IF crossref_result.data[field] = None THEN NA
    ELSE process_crossref_results(current_row, crossref_result.data.prefix, field,
                                  crossref_result.data[field]).v

\* a step that merges the Crossref answer
CrossrefMerged ==
    mode = "row" /\ pc = "retry" /\ pc' = "pubmed" /\ crossref_result.success

\* a step that calls PubMed
PubmedCalled == mode = "row" /\ pc = "pubmed" /\ calls'.pass.pubmed > calls.pass.pubmed

\* the PubMed answer a is merged, or has failed
PubmedStored(a) ==
    IF a.success
    THEN \A field \in {"pmid", "pmcid"} :
            Stored(field, IF a.data[field] = None THEN NA ELSE a.data[field])
    ELSE current_row' = current_row

\* the fields the registries deliver that no later step rewrites
MergedFields ==
    {"publisher", "journal_full_title", "issn", "issn_print", "issn_electronic", "pmid",
     "pmcid"}

\* a protected field that had a value in the row has it in the result
KeptToTheEnd ==
    (mode = "row" /\ Returned /\ WellShaped /\ "values" \in DOMAIN result)
    => \A field \in MergedFields :
          (/\ cfg.column_map[field].overwrite = KeepExisting
           /\ cfg.column_map[field].index # 0
           /\ has_value(row[cfg.column_map[field].index])
           /\ \E i \in 1..Len(COLUMN_SCHEMAS[result.record_type]) :
                 COLUMN_SCHEMAS[result.record_type][i] = field)
          => ResultField(field) = row[cfg.column_map[field].index]

-----------------------------------------------------------------------------
(* Properties of the DOAJ step of process_row (checked under Spec)         *)

\* a step that makes the DOAJ lookups
DoajStep == mode = "row" /\ pc = "doaj" /\ pc' = "book" /\ ~cfg.no_doaj_lookup

\* the ISSNs of the row in the order electronic, generic, print
PresentIssns ==
    SelectSeq(<<current_row["issn_electronic"], current_row["issn"],
                current_row["issn_print"]>>, LAMBDA x : x # NA)
\* the ISSN is in the journal registry
InDoaj(issn) == issn \in DOMAIN doaj_issn_map \cup DOMAIN doaj_eissn_map
SomeInDoaj == \E i \in 1..Len(PresentIssns) : InDoaj(PresentIssns[i])

\* the lookups stop at the first ISSN of the registry, and TRUE or FALSE is
\* offered for the doaj field
LookedUpInOrder ==
    /\ calls'.pass.doaj - calls.pass.doaj =
          IF SomeInDoaj
          THEN FirstIndex(Len(PresentIssns), LAMBDA i : InDoaj(PresentIssns[i]))
          ELSE Len(PresentIssns)
    /\ PresentIssns # <<>>
          => current_row'["doaj"] =
                check_overwrite(cfg.column_map["doaj"].overwrite, current_row["doaj"],
                                IF SomeInDoaj THEN TRUE_STR ELSE FALSE_STR)

-----------------------------------------------------------------------------
(* Properties of the book step of process_row (checked under Spec)         *)

\* a step that finalises a row that is not a journal article
BookStep == mode = "row" /\ pc = "book" /\ pc' = "finish" /\ record_type # "journal_article"

\* the candidate ISBNs of the row: the three fields and the additional columns
BookCandidates ==
    <<current_row["isbn"], current_row["isbn_print"], current_row["isbn_electronic"]>>
    \o additional_isbns_of(row, cfg)
\* the candidate validates (blanks are removed before it is tested)
Validates(isbn) == test_and_normalize_isbn(RemoveChar(isbn, Sp)).valid
Normalised(isbn) == test_and_normalize_isbn(RemoveChar(isbn, Sp)).normalised
\* the normalised values of the candidates that validate, in their order
ValidCandidates ==
    LET v == SelectSeq(BookCandidates, Validates)
    IN [i \in 1..Len(v) |-> Normalised(v[i])]
InDoab(isbn) == isbn \in DOMAIN doab_isbn_map
DoabHit == \E i \in 1..Len(ValidCandidates) : InDoab(ValidCandidates[i])
FirstHit == ValidCandidates[FirstIndex(Len(ValidCandidates),
                                       LAMBDA i : InDoab(ValidCandidates[i]))]

\* the three fields of the registry are those of before the step
KeepsCrossrefValues ==
    \A f \in {"book_title", "publisher", "license_ref"} : current_row'[f] = current_row[f]
\* the three fields of the registry are those of the DOAB entry
TakesDoabValues ==
    /\ current_row'["book_title"] = doab_isbn_map[FirstHit].Title
    /\ current_row'["publisher"] = doab_isbn_map[FirstHit].Publisher
    /\ current_row'["license_ref"] = doab_isbn_map[FirstHit].License

\* what the claim C26 says of a book step with a candidate that validates
BookWithCandidates ==
    /\ record_type' = "book_title"
    /\ calls'.pass.doab - calls.pass.doab =
          IF DoabHit
          THEN FirstIndex(Len(ValidCandidates), LAMBDA i : InDoab(ValidCandidates[i]))
          ELSE Len(ValidCandidates)
    /\ ~DoabHit => current_row'["doab"] = FALSE_STR
    /\ DoabHit
          => /\ current_row'["doab"] = TRUE_STR
             /\ IF current_row["indexed_in_crossref"] = TRUE_STR
                THEN KeepsCrossrefValues ELSE TakesDoabValues
             /\ current_row'["isbn"] = IF Validates(current_row["isbn"])
                                       THEN Normalised(current_row["isbn"]) ELSE FirstHit

\* C26: in book finalisation, when a candidate ISBN validates the record type
\* becomes book and the candidates are looked up in order until the first
\* hit; on a hit the doab flag is TRUE and, for a row confirmed by Crossref,
\* title, publisher and license keep their values and only the flag and a
\* missing isbn are filled in, otherwise the three are replaced by those of
\* the registry; without a hit the flag is FALSE; without a valid ISBN the
\* flag is NA and the record type is left as it was.
C26_BookFinalisation ==
    [][BookStep
       => IF ValidCandidates # <<>> THEN BookWithCandidates
          ELSE current_row'["doab"] = NA /\ record_type' = record_type]_vars

C26_Witness ==
    /\ mode = "row" /\ pc = "finish" /\ record_type = "book_title"
    /\ current_row["indexed_in_crossref"] = TRUE_STR
    /\ current_row["doab"] = TRUE_STR
    /\ current_row["book_title"] = BookData.book_title
    /\ calls.pass.doab = 1

-----------------------------------------------------------------------------
(* Properties of the type finalisation of process_row (checked under Spec) *)

\* the step that finalises the record type
FinishStep == mode = "row" /\ pc = "finish" /\ pc' = "done"

\* no step of the pass has set the record type: the row has a DOI, Crossref
\* was not asked, and no ISBN of the row validates
NothingSetTheType ==
    PassHasDoi /\ cfg.no_crossref_lookup /\ ValidCandidates = <<>>

\* C27: at type finalisation the record type is never left undetermined: if
\* no earlier step set it and there is no offsetting override, the result is
\* journal_article and exactly one error is logged for it; if some step set
\* it, no such error is logged.
C27_DefaultRecordType ==
    [][FinishStep
       => /\ record_type' # NoType
          /\ record_type = NoType <=> NothingSetTheType
          /\ IF record_type = NoType /\ ~IsTrue(cfg.offsetting_mode)
             THEN record_type' = "journal_article" /\ log' = AddLog(log, LogError)
             ELSE log' = log]_vars

C27_Witness ==
    /\ mode = "row" /\ Returned /\ "values" \in DOMAIN result
    /\ cfg.no_crossref_lookup /\ PassHasDoi
    /\ result.record_type = "journal_article" /\ log.error = 1

-----------------------------------------------------------------------------
(* Properties of the retry bound of process_row (checked under Spec)       *)

\* C28: the retry bound crossref_max_retries the caller passed governs every
\* Crossref lookup made for the row: the pass that follows a restart has the
\* same bound as the original call, and no pass retries more often than it.
C28_RetryBoundKept ==
    /\ [][mode = "row" => cfg'.crossref_max_retries = cfg.crossref_max_retries]_vars
    /\ [](mode = "row" => retries <= cfg.crossref_max_retries)

\* every pass keeps to the bound it was called with
RetriesWithinBoundOfPass == mode = "row" => retries <= cfg.crossref_max_retries

-----------------------------------------------------------------------------
(* Properties of the period field in process_row (checked under Spec)      *)

\* the period field of the row as the copy loop stores it
PeriodField == process_period_value(input_row[cfg.column_map["period"].index]).v
\* the resolver has answered with a publisher and the answer is processed
PublisherResolved ==
    /\ mode = "row" /\ pc = "retry" /\ pc' # "retry"
    /\ crossref_result.success /\ crossref_result.data.publisher # None
    /\ \A i \in 1..Len(DataKeys(crossref_result.data)) :
          DataKeys(crossref_result.data)[i] \in DOMAIN cfg.column_map
Reattributed ==
    current_row'["publisher"] \in {<<"Springer Science + Business Media">>, <<"Nature Publishing Group">>}
YearBelow2015 == IsIntStr(PeriodField) /\ SignedInt(PeriodField) < 2015

\* C29: whatever string the period field of a correctly shaped row holds,
\* a row whose DOI resolves in Crossref with a publisher is processed further
\* (process_row does not raise), and the publisher is re-attributed to a
\* pre-2015 name only when the period is a year below 2015.
C29_PeriodNeverAborts ==
    [][PublisherResolved
       => /\ pc' = "pubmed"
          /\ Reattributed => YearBelow2015]_vars

\* with a period that int() reads, the row is processed further and the
\* re-attribution is applied only below 2015; with any other period
\* process_row raises ValueError
PeriodReadByInt ==
    [][PublisherResolved
       => IF IsIntStr(PeriodField)
          THEN pc' = "pubmed" /\ (Reattributed => YearBelow2015)
          ELSE pc' = "done" /\ result' = ValueError]_vars

-----------------------------------------------------------------------------
(* Properties of a single row of the DOAB registry (checked under SpecCalls) *)

DoabConstructed == mode = "call" /\ call.fn = "DOABAnalysis" /\ ret # NotCalled
\* the only book line of the file in which n occurs
TheRowWith(lines, n) == lines[CHOOSE i \in 1..Len(lines) : OccursIn(lines[i], n)]
\* the line lists n both with and without hyphens
InSeveralNotations(line, n) ==
    \E i, j \in 1..Len(line.ISBN) :
        /\ i + Len(n) - 1 <= Len(line.ISBN) /\ SubSeq(line.ISBN, i, i + Len(n) - 1) = n
        /\ j + 12 <= Len(line.ISBN) /\ SubSeq(line.ISBN, j, j + 12) = RemoveChar(n, Hy)
\* the map holds the single row of n and the lookup of n returns its values
KeptWithItsRow(n) ==
    /\ n \in DOMAIN ret.isbn_map
    /\ ret.isbn_map[n] = TheRowWith(call.arg.lines, n)
    /\ ("value" \in DOMAIN ret /\ RemoveChar(call.arg.isbn, Hy) = RemoveChar(n, Hy))
       => ret.value = [book_title |-> TheRowWith(call.arg.lines, n).Title,
                       publisher |-> TheRowWith(call.arg.lines, n).Publisher,
                       license_ref |-> TheRowWith(call.arg.lines, n).License]

\* C30: after construction a normalised ISBN that occurs in exactly one book
\* row of the registry file is in the map and its lookup returns the title,
\* publisher and license of that row, also when the row lists the ISBN more
\* than once or in several notations.
C30_SingleRowKept ==
    DoabConstructed
    => \A n \in NormalisedIsbns :
          RowsWith(call.arg.lines, n) = 1 => KeptWithItsRow(n)

\* an ISBN of exactly one book row is kept with its row if and only if the
\* row does not list it in several notations
SingleRowKeptInOneNotation ==
    DoabConstructed
    => \A n \in NormalisedIsbns :
          RowsWith(call.arg.lines, n) = 1
          => IF InSeveralNotations(TheRowWith(call.arg.lines, n), n)
             THEN n \notin DOMAIN ret.isbn_map
             ELSE KeptWithItsRow(n)

====
